---- MODULE Spec2Model ----
(***************************************************************************)
(* urpmd background scheduler (urpm/daemon/scheduler.py), as a state       *)
(* machine.  The Scheduler object is modelled in development mode          *)
(* (tick 10 s, metadata 60 s, predownload 120 s); the delay computation    *)
(* and the freshness prober are in addition exercised as functions over    *)
(* bounded inputs (SpecDelay, SpecProbe).                                  *)
(*                                                                         *)
(* Time is wall-clock time in whole seconds.  A thread that sleeps or runs *)
(* a task body waits for the clock to reach its wake-up time; every other  *)
(* step takes no time, and the clock moves only when no thread can step.   *)
(***************************************************************************)
EXTENDS Integers, Sequences, FiniteSets, TLC

VARIABLES
    running,    \* Scheduler._running
    thread,     \* Scheduler._thread: 0 (None) or the id of the last thread made
    db,         \* Scheduler.db: 0 (None) or the id of the handle it holds
    handles,    \* PackageDatabase handles that are open (handle id = opener)
    next,       \* _next_<task>_check per task, None before the first evaluation
    clock,      \* time.time(), whole seconds
    mainpc,     \* caller of start()/stop(): "ready" or "joining" (in join)
    deadline,   \* clock value at which join(timeout=5) gives up
    pc,         \* per scheduler thread: position in _run/_check_tasks
    now,        \* per thread: the local `now` of _check_tasks
    slept,      \* per thread: iterations done of the for loop around sleep(1)
    wake,       \* per thread: when its sleep or task body in progress ends
    events,     \* per thread: what this thread did in its current tick
    due,        \* per thread: the tasks that were due when its current tick began
    afterStop,  \* per thread: evaluations made and sleeps ended while _running was False
    q,          \* SpecDelay: inputs and result of one _schedule_next delay
    p,          \* SpecProbe: inputs and result of one _check_synthesis_changed
    mr,         \* SpecMeta: one _run_metadata_check over a list of media
    rs,         \* SpecResync: one media probed and resynced again and again
    pr,         \* SpecPre: one _run_predownload
    cc,         \* SpecCleanup: one _run_cache_cleanup over a cache tree
    idl,        \* SpecIdle: the idle probes of one Scheduler, call after call
    hv,         \* SpecHave: one UrpmDaemon.check_have_packages over a cache tree
    bus,        \* SpecDbus: the D-Bus service, its main loop and its threads
    sg          \* SpecSignal: the daemon's main thread and its signal handlers

vars == <<running, thread, db, handles, next, clock, mainpc, deadline,
          pc, now, slept, wake, events, due, afterStop, q, p, mr, rs, pr, cc, idl, hv, bus, sg>>

\* the state of the Scheduler object and of its threads
schedVars == <<running, thread, db, handles, next, clock, mainpc, deadline,
               pc, now, slept, wake, events, due, afterStop>>

----------------------------------------------------------------------------
(* Bounds of the model *)

MaxThreads == 2
MaxStart == 1
MaxBody == 1
MaxTime == 32
MaxTimeAPI == 22
MaxCallTime == 6
MaxSize == 1
MaxMtime == 1
JitterDen == 100
QMaxTick == 10
QMaxBase == 120
MaxMedia == 2
MaxProbes == 2
MaxActions == 2
MaxFiles == 2
MaxIdleCalls == 2
MaxIdleTime == 3
MaxNetSteps == 2
IdleHz == 2
MaxNames == 2
MaxAccesses == 8
MaxOps == 1
MaxSignals == 2

(* Program constants *)

DEV_METADATA_CHECK_INTERVAL == 60
DEV_PREDOWNLOAD_CHECK_INTERVAL == 120
DEFAULT_METADATA_CHECK_INTERVAL == 3600
DEFAULT_PREDOWNLOAD_CHECK_INTERVAL == 7200
tick_interval == 10
prod_tick_interval == 60
jitter_factor == 30
startup_grace == 10
join_timeout == 5
predownload_enabled == TRUE
max_predownload_size == 524288000
cache_max_age == 2592000
max_cpu_load == 50
max_net_kbps == 100
ByteStep == (max_net_kbps * 1024) \div 2

None == -1
Threads == 1..MaxThreads
Tasks == {"metadata", "predownload"}

Max(a, b) == IF a >= b THEN a ELSE b

metadata_interval == DEV_METADATA_CHECK_INTERVAL
predownload_interval == DEV_PREDOWNLOAD_CHECK_INTERVAL

Interval(task) ==
    IF task = "metadata" THEN metadata_interval ELSE predownload_interval

----------------------------------------------------------------------------
(* _should_run_task, first call: the first-fire offsets *)

InitialOffsetsWholeInterval(base, T) ==
    {k * T : k \in 1..Max(1, base \div T)}

InitialOffsets(base, T) ==
    {k * T : k \in 1..Max(1, (base * 5) \div (T * 10))}

(* _should_run_task, later calls *)

ShouldRun(nextTime, nowTime) == nowTime >= nextTime

(* _schedule_next: jitter and quantization.  The jitter drawn by          *)
(* random.uniform(-0.30, 0.30) is e / JitterDen for an integer e.          *)

JitterLimit == (jitter_factor * JitterDen) \div 100
JitterSet == (0 - JitterLimit)..JitterLimit

\* Python's round() on num/den >= 0: to the nearest integer, a tie to the even one
RoundHalfEven(num, den) ==
    LET f == num \div den
        r2 == 2 * (num % den)
    IN  IF r2 < den THEN f
        ELSE IF r2 > den THEN f + 1
        ELSE IF f % 2 = 0 THEN f ELSE f + 1

ScheduleDelayTruncated(base, T, e) ==
    Max(1, (base * (JitterDen + e)) \div (JitterDen * T)) * T

ScheduleDelayUnquantized(base, T, e) ==
    (base * (JitterDen + e)) \div JitterDen

ScheduleDelayWideJitter(base, T, e) ==
    Max(1, RoundHalfEven(base * (JitterDen + 2 * e), JitterDen * T)) * T

ScheduleDelay(base, T, e) ==
    Max(1, RoundHalfEven(base * (JitterDen + e), JitterDen * T)) * T

Delays(base, T) == {ScheduleDelay(base, T, e) : e \in JitterSet}

----------------------------------------------------------------------------
(* Scheduler.__init__ and the idle values of the two function harnesses *)

QIdle == [T |-> 0, base |-> 0, e |-> 0, delay |-> None]
PIdle == [local |-> "absent", stat |-> "ok", lsize |-> 0, lmtime |-> 0,
          http |-> "ok", clen |-> [kind |-> "missing", val |-> 0],
          lastmod |-> [kind |-> "missing", val |-> 0],
          result |-> "none", requests |-> 0]

MRIdle == [media |-> <<>>, i |-> 0, log |-> <<>>, status |-> "idle"]
RSIdle == [status |-> "idle", n |-> 0]
PRIdle == [status |-> "idle", log |-> <<>>]
CCIdle == [status |-> "idle", now |-> 0]
IdlIdle == [status |-> "idle", calls |-> 0]
HvIdle == [status |-> "idle", i |-> 0]
BusIdle == [status |-> "idle", ops |-> 0]
SgIdle == [status |-> "idle", signals |-> 0]

NoneAfterStop == [evals |-> [task \in Tasks |-> 0], sleeps |-> 0]

SchedInit ==
    /\ running = FALSE
    /\ thread = 0
    /\ db = 0
    /\ handles = {}
    /\ next = [task \in Tasks |-> None]
    /\ mainpc = "ready"
    /\ deadline = 0
    /\ pc = [t \in Threads |-> "unborn"]
    /\ now = [t \in Threads |-> 0]
    /\ slept = [t \in Threads |-> 0]
    /\ wake = [t \in Threads |-> 0]
    /\ events = [t \in Threads |-> <<>>]
    /\ due = [t \in Threads |-> {}]
    /\ afterStop = [t \in Threads |-> NoneAfterStop]

Init ==
    /\ SchedInit
    /\ clock \in 0..MaxStart
    /\ q = QIdle
    /\ p = PIdle
    /\ mr = MRIdle
    /\ rs = RSIdle
    /\ pr = PRIdle
    /\ cc = CCIdle
    /\ idl = IdlIdle
    /\ hv = HvIdle
    /\ bus = BusIdle
    /\ sg = SgIdle

----------------------------------------------------------------------------
(* Scheduler.start and Scheduler.stop *)

start(t) ==
    /\ pc[t] = "unborn"
    /\ running' = TRUE
    /\ thread' = t
    /\ pc' = [pc EXCEPT ![t] = "open"]
    /\ afterStop' = [u \in Threads |-> NoneAfterStop]
    /\ UNCHANGED <<db, handles, next, clock, mainpc, deadline, now, slept, wake,
                   events, due, q, p, mr, rs, pr, cc, idl, hv, bus, sg>>

stop ==
    /\ running' = FALSE
    /\ IF thread # 0
         THEN mainpc' = "joining" /\ deadline' = clock + join_timeout
         ELSE UNCHANGED <<mainpc, deadline>>
    /\ UNCHANGED <<thread, db, handles, next, clock, pc, now, slept, wake,
                   events, due, afterStop, q, p, mr, rs, pr, cc, idl, hv, bus, sg>>

\* stop(): self._thread.join(timeout=5) returns
JoinReturn ==
    /\ mainpc = "joining"
    /\ pc[thread] = "done" \/ clock >= deadline
    /\ mainpc' = "ready"
    /\ deadline' = 0
    /\ UNCHANGED <<running, thread, db, handles, next, clock, pc, now, slept,
                   wake, events, due, afterStop, q, p, mr, rs, pr, cc, idl, hv, bus, sg>>

\* UrpmDaemon.start: the daemon starts its scheduler once
DaemonStart ==
    /\ mainpc = "ready"
    /\ thread = 0
    /\ start(1)

\* UrpmDaemon.stop: the daemon stops its scheduler once
DaemonStop ==
    /\ mainpc = "ready"
    /\ thread # 0
    /\ running
    /\ stop

\* any caller of the Scheduler object, calling in its first MaxCallTime seconds
ApiStart(t) ==
    /\ mainpc = "ready"
    /\ clock <= MaxCallTime
    /\ \A u \in Threads : u < t => pc[u] # "unborn"
    /\ start(t)

ApiStop ==
    /\ mainpc = "ready"
    /\ clock <= MaxCallTime
    /\ stop

----------------------------------------------------------------------------
(* Scheduler._run: the scheduler thread *)

\* while self._running:
KeepRunning(flag) == flag

\* if not self._running: break
SleepBreakNever(flag) == FALSE

SleepBreak(flag) == ~flag

\* self.db = PackageDatabase(self.db_path); time.sleep(10) begins
OpenDb(t) ==
    /\ pc[t] = "open"
    /\ db' = t
    /\ handles' = handles \cup {t}
    /\ wake' = [wake EXCEPT ![t] = clock + startup_grace]
    /\ pc' = [pc EXCEPT ![t] = "grace"]
    /\ UNCHANGED <<running, thread, next, clock, mainpc, deadline, now, slept,
                   events, due, afterStop, q, p, mr, rs, pr, cc, idl, hv, bus, sg>>

\* PackageDatabase(...) raises: the thread ends before the try block
OpenDbFails(t) ==
    /\ pc[t] = "open"
    /\ pc' = [pc EXCEPT ![t] = "done"]
    /\ UNCHANGED <<running, thread, db, handles, next, clock, mainpc, deadline,
                   now, slept, wake, events, due, afterStop, q, p, mr, rs, pr, cc, idl, hv, bus, sg>>

\* time.sleep(10) ends
Grace(t) ==
    /\ pc[t] = "grace"
    /\ clock >= wake[t]
    /\ pc' = [pc EXCEPT ![t] = "loop"]
    /\ UNCHANGED <<running, thread, db, handles, next, clock, mainpc, deadline,
                   now, slept, wake, events, due, afterStop, q, p, mr, rs, pr, cc, idl, hv, bus, sg>>

LoopTest(t) ==
    /\ pc[t] = "loop"
    /\ pc' = [pc EXCEPT ![t] = IF KeepRunning(running) THEN "tick" ELSE "close"]
    /\ UNCHANGED <<running, thread, db, handles, next, clock, mainpc, deadline,
                   now, slept, wake, events, due, afterStop, q, p, mr, rs, pr, cc, idl, hv, bus, sg>>

\* for _ in range(self.tick_interval): if not self._running: break;
\* time.sleep(1) begins
SleepTest(t) ==
    /\ pc[t] = "sleep"
    /\ IF slept[t] >= tick_interval \/ SleepBreak(running)
         THEN /\ pc' = [pc EXCEPT ![t] = "loop"]
              /\ UNCHANGED wake
         ELSE /\ pc' = [pc EXCEPT ![t] = "slice"]
              /\ wake' = [wake EXCEPT ![t] = clock + 1]
    /\ UNCHANGED <<running, thread, db, handles, next, clock, mainpc, deadline,
                   now, slept, events, due, afterStop, q, p, mr, rs, pr, cc, idl, hv, bus, sg>>

\* time.sleep(1) ends
Slice(t) ==
    /\ pc[t] = "slice"
    /\ clock >= wake[t]
    /\ slept' = [slept EXCEPT ![t] = @ + 1]
    /\ afterStop' = [afterStop EXCEPT ![t].sleeps = IF running THEN @ ELSE @ + 1]
    /\ pc' = [pc EXCEPT ![t] = "sleep"]
    /\ UNCHANGED <<running, thread, db, handles, next, clock, mainpc, deadline,
                   now, wake, events, due, q, p, mr, rs, pr, cc, idl, hv, bus, sg>>

\* finally: if self.db: self.db.close(); self.db = None
Close(t) ==
    /\ pc[t] = "close"
    /\ handles' = IF db # 0 THEN handles \ {db} ELSE handles
    /\ db' = 0
    /\ pc' = [pc EXCEPT ![t] = "done"]
    /\ UNCHANGED <<running, thread, next, clock, mainpc, deadline, now, slept,
                   wake, events, due, afterStop, q, p, mr, rs, pr, cc, idl, hv, bus, sg>>

\* except Exception as e: logger.error(...)
Caught(t) ==
    /\ pc[t] = "caught"
    /\ pc' = [pc EXCEPT ![t] = "sleep"]
    /\ UNCHANGED <<running, thread, db, handles, next, clock, mainpc, deadline,
                   now, slept, wake, events, due, afterStop, q, p, mr, rs, pr, cc, idl, hv, bus, sg>>

----------------------------------------------------------------------------
(* Scheduler._check_tasks *)

\* the order of the statements of _check_tasks
CheckTasksFlowPredownloadFirst(stage) ==
    CASE stage = "begin" -> "eval_predownload"
      [] stage = "predownload" -> "eval_metadata"
      [] stage = "metadata" -> "sleep"

CheckTasksFlow(stage) ==
    CASE stage = "begin" -> "eval_metadata"
      [] stage = "metadata" -> "eval_predownload"
      [] stage = "predownload" -> "sleep"

EvalPc(task) == IF task = "metadata" THEN "eval_metadata" ELSE "eval_predownload"
BodyPc(task) == IF task = "metadata" THEN "meta_body" ELSE "pre_body"
SchedPc(task) == IF task = "metadata" THEN "sched_metadata" ELSE "sched_predownload"
TaskEnabled(task) == task = "metadata" \/ predownload_enabled

Note(t, e) == [events EXCEPT ![t] = Append(@, e)]

Evaluated(t, task) ==
    [afterStop EXCEPT ![t].evals[task] = IF running THEN @ ELSE @ + 1]

\* what the log of a tick keeps of the tick before it: whether that tick
\* left a due predownload unevaluated because metadata_check raised
Carried(log, wasDue) ==
    IF /\ \E i \in 1..Len(log) : log[i] = "raise_metadata"
       /\ "predownload" \in wasDue
       /\ ~\E i \in 1..Len(log) : log[i] = "start_predownload"
      THEN <<"owed_predownload">>
      ELSE <<>>

\* now = time.time()
Tick(t) ==
    /\ pc[t] = "tick"
    /\ now' = [now EXCEPT ![t] = clock]
    /\ slept' = [slept EXCEPT ![t] = 0]
    /\ events' = [events EXCEPT ![t] = Carried(@, due[t])]
    /\ due' = [due EXCEPT ![t] =
                 {task \in Tasks : next[task] # None /\ ShouldRun(next[task], clock)}]
    /\ pc' = [pc EXCEPT ![t] = CheckTasksFlow("begin")]
    /\ UNCHANGED <<running, thread, db, handles, next, clock, mainpc, deadline,
                   wake, afterStop, q, p, mr, rs, pr, cc, idl, hv, bus, sg>>

\* _should_run_task, next_time is None: schedule the first run, return False
EvalFirst(t, task) ==
    /\ pc[t] = EvalPc(task)
    /\ TaskEnabled(task)
    /\ next[task] = None
    /\ \E off \in InitialOffsets(Interval(task), tick_interval) :
          next' = [next EXCEPT ![task] = now[t] + off]
    /\ events' = Note(t, "first_" \o task)
    /\ afterStop' = Evaluated(t, task)
    /\ pc' = [pc EXCEPT ![t] = CheckTasksFlow(task)]
    /\ UNCHANGED <<running, thread, db, handles, clock, mainpc, deadline, now,
                   slept, wake, due, q, p, mr, rs, pr, cc, idl, hv, bus, sg>>

\* _should_run_task, next_time set: return now >= next_time
EvalLater(t, task) ==
    /\ pc[t] = EvalPc(task)
    /\ TaskEnabled(task)
    /\ next[task] # None
    /\ IF ShouldRun(next[task], now[t])
         THEN /\ pc' = [pc EXCEPT ![t] = BodyPc(task)]
              /\ events' = Note(t, "start_" \o task)
         ELSE /\ pc' = [pc EXCEPT ![t] = CheckTasksFlow(task)]
              /\ UNCHANGED events
    /\ afterStop' = Evaluated(t, task)
    /\ UNCHANGED <<running, thread, db, handles, next, clock, mainpc, deadline,
                   now, slept, wake, due, q, p, mr, rs, pr, cc, idl, hv, bus, sg>>

\* _schedule_next(task, now, base_interval)
ScheduleNext(t, task) ==
    /\ pc[t] = SchedPc(task)
    /\ \E d \in Delays(Interval(task), tick_interval) :
          next' = [next EXCEPT ![task] = now[t] + d]
    /\ events' = Note(t, "sched_" \o task)
    /\ pc' = [pc EXCEPT ![t] = CheckTasksFlow(task)]
    /\ UNCHANGED <<running, thread, db, handles, clock, mainpc, deadline, now,
                   slept, wake, due, afterStop, q, p, mr, rs, pr, cc, idl, hv, bus, sg>>

----------------------------------------------------------------------------
(* Scheduler._run_metadata_check, as _check_tasks sees it: without a       *)
(* handle it returns at once; otherwise it works for a while and returns,  *)
(* or an exception leaves it (db.list_media() failing, or int() on a       *)
(* Content-Length that is no number, which _check_synthesis_changed does   *)
(* not catch).                                                             *)

\* if not self.db: return
MetaBegin(t) ==
    /\ pc[t] = "meta_body"
    /\ IF db = 0
         THEN /\ pc' = [pc EXCEPT ![t] = "sched_metadata"]
              /\ events' = Note(t, "end_metadata")
              /\ UNCHANGED wake
         ELSE /\ pc' = [pc EXCEPT ![t] = "meta_work"]
              /\ \E d \in 0..MaxBody : wake' = [wake EXCEPT ![t] = clock + d]
              /\ UNCHANGED events
    /\ UNCHANGED <<running, thread, db, handles, next, clock, mainpc, deadline,
                   now, slept, due, afterStop, q, p, mr, rs, pr, cc, idl, hv, bus, sg>>

MetaReturn(t) ==
    /\ pc[t] = "meta_work"
    /\ clock >= wake[t]
    /\ events' = Note(t, "end_metadata")
    /\ pc' = [pc EXCEPT ![t] = "sched_metadata"]
    /\ UNCHANGED <<running, thread, db, handles, next, clock, mainpc, deadline,
                   now, slept, wake, due, afterStop, q, p, mr, rs, pr, cc, idl, hv, bus, sg>>

MetaRaise(t) ==
    /\ pc[t] = "meta_work"
    /\ clock >= wake[t]
    /\ events' = Note(t, "raise_metadata")
    /\ pc' = [pc EXCEPT ![t] = "caught"]
    /\ UNCHANGED <<running, thread, db, handles, next, clock, mainpc, deadline,
                   now, slept, wake, due, afterStop, q, p, mr, rs, pr, cc, idl, hv, bus, sg>>

----------------------------------------------------------------------------
(* Scheduler._run_predownload *)

\* if not self.db: return; updates = self._get_available_updates();
\* if not updates: return; if total_size > self.max_predownload_size: return
PreUpdates(t) ==
    /\ pc[t] = "pre_body"
    /\ \E outcome \in (IF db = 0 THEN {"nodb"} ELSE {"none", "toolarge", "fits"}) :
          IF outcome = "fits"
            THEN /\ pc' = [pc EXCEPT ![t] = "pre_idle"]
                 /\ UNCHANGED events
            ELSE /\ pc' = [pc EXCEPT ![t] = "sched_predownload"]
                 /\ events' = Note(t, "skip_predownload")
    /\ UNCHANGED <<running, thread, db, handles, next, clock, mainpc, deadline,
                   now, slept, wake, due, afterStop, q, p, mr, rs, pr, cc, idl, hv, bus, sg>>

\* if not self._is_system_idle(): return;
\* self._predownload_packages(update_list) begins
PreIdle(t) ==
    /\ pc[t] = "pre_idle"
    /\ \E idle \in BOOLEAN :
          IF idle
            THEN /\ pc' = [pc EXCEPT ![t] = "pre_download"]
                 /\ events' = Note(t, "download_start")
                 /\ \E d \in 0..MaxBody : wake' = [wake EXCEPT ![t] = clock + d]
            ELSE /\ pc' = [pc EXCEPT ![t] = "sched_predownload"]
                 /\ events' = Note(t, "skip_predownload")
                 /\ UNCHANGED wake
    /\ UNCHANGED <<running, thread, db, handles, next, clock, mainpc, deadline,
                   now, slept, due, afterStop, q, p, mr, rs, pr, cc, idl, hv, bus, sg>>

\* what follows self._predownload_packages(update_list) when it returns
AfterDownloadNoCleanup == "sched_predownload"

AfterDownload == "pre_cleanup"

\* self._predownload_packages(update_list) returns, or raises into the
\* except clause of _run_predownload
PreDownload(t) ==
    /\ pc[t] = "pre_download"
    /\ clock >= wake[t]
    /\ \E ok \in BOOLEAN :
          IF ok
            THEN /\ pc' = [pc EXCEPT ![t] = AfterDownload]
                 /\ events' = Note(t, "download_end")
            ELSE /\ pc' = [pc EXCEPT ![t] = "sched_predownload"]
                 /\ events' = Note(t, "download_raise")
    /\ UNCHANGED <<running, thread, db, handles, next, clock, mainpc, deadline,
                   now, slept, wake, due, afterStop, q, p, mr, rs, pr, cc, idl, hv, bus, sg>>

\* self._run_cache_cleanup()
PreCleanup(t) ==
    /\ pc[t] = "pre_cleanup"
    /\ events' = Note(t, "cleanup")
    /\ pc' = [pc EXCEPT ![t] = "sched_predownload"]
    /\ UNCHANGED <<running, thread, db, handles, next, clock, mainpc, deadline,
                   now, slept, wake, due, afterStop, q, p, mr, rs, pr, cc, idl, hv, bus, sg>>

----------------------------------------------------------------------------
(* Time *)

Waiting(t) ==
    /\ pc[t] \in {"grace", "slice", "meta_work", "pre_download"}
    /\ wake[t] > clock

\* a second passes: some thread sleeps or works, and none can take a step
TimePasses(horizon) ==
    /\ clock < horizon
    /\ \E t \in Threads : Waiting(t)
    /\ \A t \in Threads : pc[t] \in {"unborn", "done"} \/ Waiting(t)
    /\ clock' = clock + 1
    /\ UNCHANGED <<running, thread, db, handles, next, mainpc, deadline, pc, now,
                   slept, wake, events, due, afterStop, q, p, mr, rs, pr, cc, idl, hv, bus, sg>>

----------------------------------------------------------------------------
(* The specifications of the scheduler *)

ThreadStep(t) ==
    \/ OpenDb(t)
    \/ OpenDbFails(t)
    \/ Grace(t)
    \/ LoopTest(t)
    \/ Tick(t)
    \/ \E task \in Tasks : EvalFirst(t, task)
    \/ \E task \in Tasks : EvalLater(t, task)
    \/ \E task \in Tasks : ScheduleNext(t, task)
    \/ MetaBegin(t)
    \/ MetaReturn(t)
    \/ MetaRaise(t)
    \/ PreUpdates(t)
    \/ PreIdle(t)
    \/ PreDownload(t)
    \/ PreCleanup(t)
    \/ Caught(t)
    \/ SleepTest(t)
    \/ Slice(t)
    \/ Close(t)

\* the scheduler as the daemon runs it: started once, stopped once
Next ==
    \/ DaemonStart
    \/ DaemonStop
    \/ JoinReturn
    \/ TimePasses(MaxTime)
    \/ \E t \in Threads : ThreadStep(t)

Spec == Init /\ [][Next]_vars

\* the Scheduler object under any sequence of start() and stop() calls
NextAPI ==
    \/ \E t \in Threads : ApiStart(t)
    \/ ApiStop
    \/ JoinReturn
    \/ TimePasses(MaxTimeAPI)
    \/ \E t \in Threads : ThreadStep(t)

SpecAPI == Init /\ [][NextAPI]_vars

----------------------------------------------------------------------------
(* _schedule_next as a function of its inputs: one delay computation *)

\* the (tick, base interval) pairs Scheduler.__init__ sets
ProgramConfigs ==
    {<<tick_interval, DEV_METADATA_CHECK_INTERVAL>>,
     <<tick_interval, DEV_PREDOWNLOAD_CHECK_INTERVAL>>,
     <<prod_tick_interval, DEFAULT_METADATA_CHECK_INTERVAL>>,
     <<prod_tick_interval, DEFAULT_PREDOWNLOAD_CHECK_INTERVAL>>}

QConfigs == ProgramConfigs \cup ((1..QMaxTick) \X (1..QMaxBase))

InitDelay ==
    /\ SchedInit
    /\ clock = 0
    /\ p = PIdle
    /\ mr = MRIdle
    /\ rs = RSIdle
    /\ pr = PRIdle
    /\ cc = CCIdle
    /\ idl = IdlIdle
    /\ hv = HvIdle
    /\ bus = BusIdle
    /\ sg = SgIdle
    /\ q \in {[T |-> c[1], base |-> c[2], e |-> e, delay |-> None] :
                c \in QConfigs, e \in JitterSet}

\* jitter = random.uniform(...) has been drawn as q.e / JitterDen
ComputeDelay ==
    /\ q.delay = None
    /\ q' = [q EXCEPT !.delay = ScheduleDelay(q.base, q.T, q.e)]
    /\ UNCHANGED <<running, thread, db, handles, next, clock, mainpc, deadline,
                   pc, now, slept, wake, events, due, afterStop, p, mr, rs, pr, cc, idl, hv, bus, sg>>

NextDelay == ComputeDelay

SpecDelay == InitDelay /\ [][NextDelay]_vars

----------------------------------------------------------------------------
(* Scheduler._check_synthesis_changed as a function of what it finds:      *)
(*   local   - local_path.exists(): "present" or "absent"                  *)
(*   stat    - local_path.stat(): "ok" or "oserror"                        *)
(*   http    - urlopen: "ok", "httperror" (HTTPError), "urlerror"          *)
(*             (URLError or OSError) or "badstatus" (an exception that is  *)
(*             neither, such as http.client.BadStatusLine)                 *)
(*   clen    - Content-Length: kind "missing", "empty", "bad" (no         *)
(*             integer) or "int" with the size as val                      *)
(*   lastmod - Last-Modified: kind "missing", "bad" (no date) or "date"    *)
(*             with the time as val                                        *)
(* The result is "changed" (True), "unchanged" (False) or "raise" (an      *)
(* exception leaves the function); requests counts the HTTP requests.      *)

ProbeHeadFirst(in) ==
    IF in.http # "ok" THEN [result |-> "changed", requests |-> 1]
    ELSE IF in.local = "absent" THEN [result |-> "changed", requests |-> 1]
    ELSE [result |-> "unchanged", requests |-> 1]

ProbeHeadersNewerOrEqual(in) ==
    IF in.clen.kind = "bad"
      THEN [result |-> "raise", requests |-> 1]
    ELSE IF in.clen.kind = "int" /\ in.clen.val # in.lsize
      THEN [result |-> "changed", requests |-> 1]
    ELSE IF in.lastmod.kind = "date" /\ in.lastmod.val >= in.lmtime
      THEN [result |-> "changed", requests |-> 1]
    ELSE [result |-> "unchanged", requests |-> 1]

ProbeHeadersSizeMatchChanged(in) ==
    IF in.clen.kind = "bad"
      THEN [result |-> "raise", requests |-> 1]
    ELSE IF in.clen.kind = "int" /\ in.clen.val = in.lsize
      THEN [result |-> "changed", requests |-> 1]
    ELSE IF in.lastmod.kind = "date" /\ in.lastmod.val > in.lmtime
      THEN [result |-> "changed", requests |-> 1]
    ELSE [result |-> "unchanged", requests |-> 1]

\* the comparisons made on a response: if remote_size_str: ...; if remote_last_mod: ...
ProbeHeaders(in) ==
    IF in.clen.kind = "bad"
      THEN [result |-> "raise", requests |-> 1]
    ELSE IF in.clen.kind = "int" /\ in.clen.val # in.lsize
      THEN [result |-> "changed", requests |-> 1]
    ELSE IF in.lastmod.kind = "date" /\ in.lastmod.val > in.lmtime
      THEN [result |-> "changed", requests |-> 1]
    ELSE [result |-> "unchanged", requests |-> 1]

Probe(in) ==
    IF in.local = "absent" THEN [result |-> "changed", requests |-> 0]
    ELSE IF in.stat = "oserror" THEN [result |-> "changed", requests |-> 0]
    ELSE IF in.http \in {"httperror", "urlerror"}
      THEN [result |-> "changed", requests |-> 1]
    ELSE IF in.http = "badstatus" THEN [result |-> "raise", requests |-> 1]
    ELSE ProbeHeaders(in)

Header(kinds, valued, top) ==
    {[kind |-> k, val |-> 0] : k \in kinds} \cup {[kind |-> valued, val |-> v] : v \in 0..top}

ProbeInputs ==
    [local : {"absent", "present"},
     stat : {"ok", "oserror"},
     lsize : 0..MaxSize,
     lmtime : 0..MaxMtime,
     http : {"ok", "httperror", "urlerror", "badstatus"},
     clen : Header({"missing", "empty", "bad"}, "int", MaxSize),
     lastmod : Header({"missing", "bad"}, "date", MaxMtime),
     result : {"none"},
     requests : {0}]

InitProbe ==
    /\ SchedInit
    /\ clock = 0
    /\ q = QIdle
    /\ mr = MRIdle
    /\ rs = RSIdle
    /\ pr = PRIdle
    /\ cc = CCIdle
    /\ idl = IdlIdle
    /\ hv = HvIdle
    /\ bus = BusIdle
    /\ sg = SgIdle
    /\ p \in ProbeInputs

RunProbe ==
    /\ p.result = "none"
    /\ p' = [p EXCEPT !.result = Probe(p).result, !.requests = Probe(p).requests]
    /\ UNCHANGED <<running, thread, db, handles, next, clock, mainpc, deadline,
                   pc, now, slept, wake, events, due, afterStop, q, mr, rs, pr, cc, idl, hv, bus, sg>>

NextProbe == RunProbe

SpecProbe == InitProbe /\ [][NextProbe]_vars

----------------------------------------------------------------------------
(* Scheduler._run_metadata_check over the media of self.db.list_media().    *)
(* A media is what the run finds for it: enabled, url (whether it has one), *)
(* probe (what _check_synthesis_changed answers: "changed", "unchanged" or  *)
(* "raise") and sync (what sync_media does when called: "ok", "fail" for    *)
(* result.success False, "raise").  The log lists the probes and the        *)
(* sync_media calls of the run in order.                                    *)

\* the answers _check_synthesis_changed can give
ProbeResults == {Probe(in).result : in \in ProbeInputs}

MediaKinds ==
    [enabled : BOOLEAN, url : BOOLEAN, probe : ProbeResults,
     sync : {"ok", "fail", "raise"}]

MediaLists == UNION {[1..n -> MediaKinds] : n \in 0..MaxMedia}

\* if has_changed: self._refresh_media(name)
ShouldRefreshAlways(decision) == decision \in {"changed", "unchanged"}

ShouldRefresh(decision) == decision = "changed"

\* sync_media(self.db, media_name, force=True)
SyncForce == TRUE

\* try: self._refresh_media(name) / except Exception: logger.error(...);
\* _refresh_media logs a result whose success is False and returns
AfterSync(outcome) == "next"

ProbeCall(i) == [op |-> "probe", idx |-> i, force |-> FALSE]
SyncCall(i) == [op |-> "sync", idx |-> i, force |-> SyncForce]

InitMeta ==
    /\ SchedInit
    /\ clock = 0
    /\ q = QIdle
    /\ p = PIdle
    /\ mr \in {[media |-> ml, i |-> 0, log |-> <<>>, status |-> "idle"] : ml \in MediaLists}
    /\ rs = RSIdle
    /\ pr = PRIdle
    /\ cc = CCIdle
    /\ idl = IdlIdle
    /\ hv = HvIdle
    /\ bus = BusIdle
    /\ sg = SgIdle

\* media_list = self.db.list_media(): returns the list, or raises
MetaListMedia ==
    /\ mr.status = "idle"
    /\ \E ok \in BOOLEAN :
          mr' = IF ok THEN [mr EXCEPT !.status = "running", !.i = 1]
                      ELSE [mr EXCEPT !.status = "raised"]
    /\ UNCHANGED <<schedVars, q, p, rs, pr, cc, idl, hv, bus, sg>>

\* one iteration of `for media in media_list`
MetaVisit ==
    /\ mr.status = "running"
    /\ mr.i <= Len(mr.media)
    /\ LET md == mr.media[mr.i]
           probed == Append(mr.log, ProbeCall(mr.i))
       IN  mr' = IF ~md.enabled \/ ~md.url
                   THEN [mr EXCEPT !.i = @ + 1]
                 ELSE IF md.probe = "raise"
                   THEN [mr EXCEPT !.log = probed, !.status = "raised"]
                 ELSE IF ShouldRefresh(md.probe)
                   THEN IF AfterSync(md.sync) = "next"
                          THEN [mr EXCEPT !.log = Append(probed, SyncCall(mr.i)),
                                          !.i = @ + 1]
                          ELSE [mr EXCEPT !.log = Append(probed, SyncCall(mr.i)),
                                          !.status = "raised"]
                 ELSE [mr EXCEPT !.log = probed, !.i = @ + 1]
    /\ UNCHANGED <<schedVars, q, p, rs, pr, cc, idl, hv, bus, sg>>

\* the for loop ends and _run_metadata_check returns
MetaEnd ==
    /\ mr.status = "running"
    /\ mr.i > Len(mr.media)
    /\ mr' = [mr EXCEPT !.status = "returned"]
    /\ UNCHANGED <<schedVars, q, p, rs, pr, cc, idl, hv, bus, sg>>

NextMeta == MetaListMedia \/ MetaVisit \/ MetaEnd

SpecMeta == InitMeta /\ [][NextMeta]_vars

----------------------------------------------------------------------------
(* One media probed again and again against a remote index that does not    *)
(* change: rs.clen and rs.lastmod are the headers every answered HEAD       *)
(* carries, rs.local/lsize/lmtime the local synthesis file.  Each probe     *)
(* meets its own I/O outcome (the stat and the HEAD request may fail one    *)
(* time and work the next).  A "changed" answer makes the run call          *)
(* sync_media, as in _run_metadata_check.                                    *)

ProbeIO == [stat : {"ok", "oserror"}, http : {"ok", "httperror", "urlerror", "badstatus"}]

\* what _check_synthesis_changed is given at one probe
ProbeInput(r, io) ==
    [local |-> r.local, stat |-> io.stat, lsize |-> r.lsize, lmtime |-> r.lmtime,
     http |-> io.http, clen |-> r.clen, lastmod |-> r.lastmod,
     result |-> "none", requests |-> 0]

\* sync_media succeeding: the local file becomes the cached copy of the
\* upstream index, of the size the remote reports when it reports one, with
\* the mtime the local clock gives it
SyncedFiles(r) ==
    {[local |-> "present", lsize |-> sz, lmtime |-> mt] :
        sz \in (IF r.clen.kind = "int" THEN {r.clen.val} ELSE 0..MaxSize),
        mt \in 0..MaxMtime}

LocalFiles ==
    {[local |-> "absent", lsize |-> 0, lmtime |-> 0]} \cup
    [local : {"present"}, lsize : 0..MaxSize, lmtime : 0..MaxMtime]

NoIO == [stat |-> "none", http |-> "none"]

\* rs.last, rs.lastIO, rs.seen: the answer of the latest probe, how its I/O
\* ended and the local mtime it saw; rs.after: whether some sync_media had
\* succeeded before it; rs.prev, rs.prevIO: answer and I/O of the probe
\* before; rs.between: whether a sync_media succeeded between the two;
\* rs.synced: some sync_media has succeeded; rs.resynced: the latest visit
\* ended with one
InitResync ==
    /\ SchedInit
    /\ clock = 0
    /\ q = QIdle
    /\ p = PIdle
    /\ mr = MRIdle
    /\ pr = PRIdle
    /\ cc = CCIdle
    /\ idl = IdlIdle
    /\ hv = HvIdle
    /\ bus = BusIdle
    /\ sg = SgIdle
    /\ rs \in {[status |-> "ready", local |-> f.local, lsize |-> f.lsize,
                 lmtime |-> f.lmtime, clen |-> cl, lastmod |-> lm,
                 n |-> 0, synced |-> FALSE, resynced |-> FALSE,
                 after |-> FALSE, between |-> FALSE,
                 seen |-> 0, prev |-> "none", prevIO |-> NoIO,
                 last |-> "none", lastIO |-> NoIO] :
                   f \in LocalFiles,
                   cl \in Header({"missing", "empty", "bad"}, "int", MaxSize),
                   lm \in Header({"missing", "bad"}, "date", MaxMtime)}

\* one visit of the media by _run_metadata_check: the probe, and on
\* "changed" the call of _refresh_media, whose sync_media succeeds or not
ProbeAndRefresh ==
    /\ rs.status = "ready"
    /\ rs.n < MaxProbes
    /\ \E io \in ProbeIO, syncOk \in BOOLEAN :
          LET res == Probe(ProbeInput(rs, io)).result
              resync == ShouldRefresh(res) /\ syncOk
              probed == [rs EXCEPT !.n = @ + 1, !.prev = rs.last, !.prevIO = rs.lastIO,
                                   !.last = res, !.lastIO = io,
                                   !.seen = rs.lmtime, !.after = rs.synced,
                                   !.between = rs.resynced,
                                   !.synced = rs.synced \/ resync,
                                   !.resynced = resync]
          IN  IF resync
                THEN \E f \in SyncedFiles(rs) :
                        rs' = [probed EXCEPT !.local = f.local, !.lsize = f.lsize,
                                             !.lmtime = f.lmtime]
                ELSE rs' = probed
    /\ UNCHANGED <<schedVars, q, p, mr, pr, cc, idl, hv, bus, sg>>

NextResync == ProbeAndRefresh

SpecResync == InitResync /\ [][NextResync]_vars

----------------------------------------------------------------------------
(* One Scheduler._run_predownload, with the thread's database handle open.  *)
(* pr.resolver is what Resolver.resolve_upgrade does ("ok" or "raise"),      *)
(* pr.actions its result.actions: per action its size (None or a number of   *)
(* bytes) and whether db.get_package gives it a url and a filename;          *)
(* pr.idle what _is_system_idle answers; pr.dl whether Downloader.download   *)
(* returns or raises.  pr.log lists what the run did.                        *)

ActionSizes ==
    {None, 0, 1, max_predownload_size - 1, max_predownload_size,
     max_predownload_size + 1}

ActionKinds == [size : ActionSizes, fetchable : BOOLEAN]

ActionLists == UNION {[1..n -> ActionKinds] : n \in 0..MaxActions}

\* total_size += action.size or 0
RECURSIVE TotalSize(_)
TotalSize(actions) ==
    IF actions = <<>> THEN 0
    ELSE (IF Head(actions).size = None THEN 0 ELSE Head(actions).size)
         + TotalSize(Tail(actions))

\* _get_available_updates: None when the resolver raises, else the dict
\* {'count': ..., 'updates': ..., 'total_size': ...}
GetAvailableUpdates(resolver, actions) ==
    IF resolver = "raise"
      THEN [none |-> TRUE, count |-> 0, total_size |-> 0]
      ELSE [none |-> FALSE, count |-> Len(actions), total_size |-> TotalSize(actions)]

\* if not updates: a dict that has keys is true, None is not
NoUpdates(updates) == updates.none

\* if total_size > self.max_predownload_size
TooLargeOrEqual(total) == total >= max_predownload_size

TooLarge(total) == total > max_predownload_size

\* items: the actions whose package has a url and a filename
Items(actions) == {i \in 1..Len(actions) : actions[i].fetchable}

InitPre ==
    /\ SchedInit
    /\ clock = 0
    /\ q = QIdle
    /\ p = PIdle
    /\ mr = MRIdle
    /\ rs = RSIdle
    /\ cc = CCIdle
    /\ idl = IdlIdle
    /\ hv = HvIdle
    /\ bus = BusIdle
    /\ sg = SgIdle
    /\ pr \in {[status |-> "start", resolver |-> r, actions |-> al, idle |-> idle,
                 dl |-> dl, log |-> <<>>] :
                   r \in {"ok", "raise"}, al \in ActionLists, idle \in BOOLEAN,
                   dl \in {"ok", "raise"}}

\* updates = self._get_available_updates(); if not updates: return
PreRunResolve ==
    /\ pr.status = "start"
    /\ pr' = [pr EXCEPT !.log = Append(@, "resolve"),
                        !.status = IF NoUpdates(GetAvailableUpdates(pr.resolver, pr.actions))
                                     THEN "done" ELSE "size"]
    /\ UNCHANGED <<schedVars, q, p, mr, rs, cc, idl, hv, bus, sg>>

\* if total_size > self.max_predownload_size: return
PreRunSize ==
    /\ pr.status = "size"
    /\ pr' = [pr EXCEPT !.status =
                 IF TooLarge(GetAvailableUpdates(pr.resolver, pr.actions).total_size)
                   THEN "done" ELSE "probe"]
    /\ UNCHANGED <<schedVars, q, p, mr, rs, cc, idl, hv, bus, sg>>

\* if not self._is_system_idle(): return
AfterIdleProbe(idle) == IF idle THEN "packages" ELSE "done"

PreRunIdle ==
    /\ pr.status = "probe"
    /\ pr' = [pr EXCEPT !.log = Append(@, "idle_probe"),
                        !.status = AfterIdleProbe(pr.idle)]
    /\ UNCHANGED <<schedVars, q, p, mr, rs, cc, idl, hv, bus, sg>>

\* self._predownload_packages(update_list): Downloader(cache_dir=...);
\* if items: downloader.download(items, progress_callback)
PreRunPackages ==
    /\ pr.status = "packages"
    /\ pr' = IF Items(pr.actions) = {}
               THEN [pr EXCEPT !.log = Append(@, "packages"), !.status = "cleanup"]
             ELSE IF pr.dl = "ok"
               THEN [pr EXCEPT !.log = @ \o <<"packages", "download">>,
                               !.status = "cleanup"]
             ELSE [pr EXCEPT !.log = @ \o <<"packages", "download">>,
                             !.status = "done"]
    /\ UNCHANGED <<schedVars, q, p, mr, rs, cc, idl, hv, bus, sg>>

\* self._run_cache_cleanup()
PreRunCleanup ==
    /\ pr.status = "cleanup"
    /\ pr' = [pr EXCEPT !.log = Append(@, "cleanup"), !.status = "done"]
    /\ UNCHANGED <<schedVars, q, p, mr, rs, cc, idl, hv, bus, sg>>

NextPre == PreRunResolve \/ PreRunSize \/ PreRunIdle \/ PreRunPackages \/ PreRunCleanup

SpecPre == InitPre /\ [][NextPre]_vars

----------------------------------------------------------------------------
(* The cache tree through the end of a predownload run: the download step   *)
(* and Scheduler._run_cache_cleanup.  A file of the tree under base_dir is  *)
(* [exists, rpm (its name ends in .rpm), mtime, pending (a resolver action   *)
(* of this run refers to it), oserror (stat or unlink fails on it)].         *)
(* cc.listMedia is what self.db.list_media() does in the cleanup.            *)

CleanupTimes == {cache_max_age + k : k \in 1..MaxMtime}

Mtimes(t) == {t - cache_max_age - 1, t - cache_max_age, t}

NoFile == [exists |-> FALSE, rpm |-> TRUE, mtime |-> 0, pending |-> FALSE, oserror |-> FALSE]

FileKinds(t) ==
    {NoFile, [NoFile EXCEPT !.pending = TRUE]} \cup
    {f \in [exists : {TRUE}, rpm : BOOLEAN, mtime : Mtimes(t), pending : BOOLEAN,
             oserror : BOOLEAN] : f.pending => f.rpm}

\* Downloader.download: a pending file already in the cache is reported
\* cached and left as it is; a missing one is written now, or its download
\* fails and it stays missing
Downloaded(f, t) ==
    IF f.pending /\ ~f.exists
      THEN {f, [f EXCEPT !.exists = TRUE, !.mtime = t]}
      ELSE {f}

\* cutoff = time.time() - (30 * 24 * 3600)
Cutoff(t) == t - cache_max_age

\* if stat.st_mtime < cutoff
ExpiredOrEqual(mtime, cutoff) == mtime <= cutoff

Expired(mtime, cutoff) == mtime < cutoff

\* for rpm_file in self.base_dir.glob('**/*.rpm'): stat, compare, unlink;
\* except OSError: the file is left
Cleaned(f, t) ==
    IF f.exists /\ f.rpm /\ ~f.oserror /\ Expired(f.mtime, Cutoff(t))
      THEN [f EXCEPT !.exists = FALSE]
      ELSE f

\* rpm_file.unlink(); cleaned += 1: the files the walk counts as removed
UnlinkedOnAttempt(f, t) == f.exists /\ f.rpm /\ Expired(f.mtime, Cutoff(t))

Unlinked(f, t) == f.exists /\ f.rpm /\ ~f.oserror /\ Expired(f.mtime, Cutoff(t))

InitCleanup ==
    /\ SchedInit
    /\ clock = 0
    /\ q = QIdle
    /\ p = PIdle
    /\ mr = MRIdle
    /\ rs = RSIdle
    /\ pr = PRIdle
    /\ idl = IdlIdle
    /\ hv = HvIdle
    /\ bus = BusIdle
    /\ sg = SgIdle
    /\ \E t \in CleanupTimes :
          cc \in {[status |-> "start", now |-> t, listMedia |-> lm, files |-> fs,
                   before |-> fs, cleaned |-> 0] :
                     lm \in {"ok", "raise"}, fs \in [1..MaxFiles -> FileKinds(t)]}

\* the download step of the predownload run that triggers the cleanup
CacheDownload ==
    /\ cc.status = "start"
    /\ \E fs \in [1..MaxFiles -> UNION {Downloaded(cc.files[i], cc.now) : i \in 1..MaxFiles}] :
          /\ \A i \in 1..MaxFiles : fs[i] \in Downloaded(cc.files[i], cc.now)
          /\ cc' = [cc EXCEPT !.status = "downloaded", !.files = fs, !.before = fs]
    /\ UNCHANGED <<schedVars, q, p, mr, rs, pr, idl, hv, bus, sg>>

\* _run_cache_cleanup: db.list_media() raising ends it in the outer except
\* clause before any file is looked at
CacheCleanup ==
    /\ cc.status = "downloaded"
    /\ cc' = IF cc.listMedia = "raise"
               THEN [cc EXCEPT !.status = "aborted"]
               ELSE [cc EXCEPT !.status = "cleaned",
                               !.files = [i \in 1..MaxFiles |-> Cleaned(cc.files[i], cc.now)],
                               !.cleaned = Cardinality({i \in 1..MaxFiles :
                                                          Unlinked(cc.files[i], cc.now)})]
    /\ UNCHANGED <<schedVars, q, p, mr, rs, pr, idl, hv, bus, sg>>

NextCleanup == CacheDownload \/ CacheCleanup

SpecCleanup == InitCleanup /\ [][NextCleanup]_vars

----------------------------------------------------------------------------
(* System idle detection (_is_system_idle and its two probes), call after  *)
(* call on one Scheduler.  Time is time.time() in units of 1/IdleHz        *)
(* second; the load average is in hundredths, as the kernel prints it.     *)
(*   load file - /proc/loadavg: kind "ok" with the 1-minute load, or       *)
(*               "ioerror" (open or read fails), "empty" (no token:        *)
(*               IndexError) or "bad" (float() fails: ValueError)          *)
(*   net file  - /proc/net/dev: readable or not, and its lines; a line is  *)
(*               a "header" (it has no ':'), or an interface line whose    *)
(*               fields are "ok" (rx and tx are its fields 0 and 8),       *)
(*               "short" (fewer than 9 fields) or "bad" (int() fails)      *)

NetCounters == {k * ByteStep : k \in 0..MaxNetSteps}

Loads == {max_cpu_load - 1, max_cpu_load, max_cpu_load + 1}

LoadFiles ==
    {[kind |-> "ok", load |-> l] : l \in Loads} \cup
    {[kind |-> k, load |-> 0] : k \in {"ioerror", "empty", "bad"}}

HeaderLine == [iface |-> "", fields |-> "header", rx |-> 0, tx |-> 0]

LoLines ==
    {[iface |-> "lo", fields |-> f, rx |-> MaxNetSteps * ByteStep, tx |-> MaxNetSteps * ByteStep] :
        f \in {"ok", "bad"}}

EthLines ==
    {[iface |-> "eth0", fields |-> "ok", rx |-> rx, tx |-> tx] :
        rx \in NetCounters, tx \in {0, ByteStep}} \cup
    {[iface |-> "eth0", fields |-> f, rx |-> 0, tx |-> 0] : f \in {"short", "bad"}}

NetFiles ==
    {[readable |-> FALSE, lines |-> <<>>]} \cup
    {[readable |-> TRUE, lines |-> <<HeaderLine>> \o lo \o eth] :
        lo \in {<<>>} \cup {<<l>> : l \in LoLines},
        eth \in {<<>>} \cup {<<l>> : l \in EthLines}}

\* self._last_net_sample = None; self._last_net_sample_time = None
NoSample == [set |-> FALSE, rx |-> 0, tx |-> 0, time |-> 0]

\* _is_cpu_idle: load_1min < self.max_cpu_load; True when the file cannot be
\* read or parsed
IsCpuIdleFailClosed(f) == f.kind = "ok" /\ f.load < max_cpu_load

IsCpuIdle(f) ==
    IF f.kind = "ok" THEN f.load < max_cpu_load ELSE TRUE

\* the loop of _get_network_bytes over the lines of the file
RECURSIVE SumLines(_)
SumLines(lines) ==
    IF lines = <<>> THEN [raised |-> FALSE, rx |-> 0, tx |-> 0]
    ELSE LET l == Head(lines)
             rest == SumLines(Tail(lines))
         IN  IF l.fields = "header" \/ l.iface = "lo" \/ l.fields = "short"
               THEN rest
             ELSE IF l.fields = "bad" \/ rest.raised
               THEN [raised |-> TRUE, rx |-> 0, tx |-> 0]
             ELSE [raised |-> FALSE, rx |-> rest.rx + l.rx, tx |-> rest.tx + l.tx]

\* _get_network_bytes: (total_rx, total_tx), or an exception leaves it
GetNetworkBytes(f) ==
    IF f.readable THEN SumLines(f.lines)
    ELSE [raised |-> TRUE, rx |-> 0, tx |-> 0]

\* self._last_net_sample = (rx_bytes, tx_bytes); self._last_net_sample_time = now
SampledAtZero(b, t) == [set |-> TRUE, rx |-> b.rx, tx |-> b.tx, time |-> 0]

Sampled(b, t) == [set |-> TRUE, rx |-> b.rx, tx |-> b.tx, time |-> t]

\* if elapsed < 1: return True
TooSoonNever(elapsed) == FALSE

TooSoon(elapsed) == elapsed < IdleHz

\* total_rate < self.max_net_kbps, for total_rate = (rx - prev_rx) / elapsed
\* / 1024 + (tx - prev_tx) / elapsed / 1024 and elapsed > 0
RateBelowMax(b, sample, elapsed) ==
    ((b.rx - sample.rx) + (b.tx - sample.tx)) * IdleHz < max_net_kbps * 1024 * elapsed

\* _is_network_idle: the answer and the sample it leaves stored; an
\* exception (reading the file, or dividing by an elapsed time of 0) is
\* caught and answered True
IsNetworkIdle(f, t, sample) ==
    LET b == GetNetworkBytes(f)
        elapsed == t - sample.time
    IN  IF b.raised THEN [idle |-> TRUE, sample |-> sample]
        ELSE IF ~sample.set THEN [idle |-> TRUE, sample |-> Sampled(b, t)]
        ELSE IF TooSoon(elapsed) THEN [idle |-> TRUE, sample |-> sample]
        ELSE IF elapsed = 0 THEN [idle |-> TRUE, sample |-> sample]
        ELSE [idle |-> RateBelowMax(b, sample, elapsed), sample |-> Sampled(b, t)]

\* _is_system_idle: both probes are called, then cpu_idle and net_idle decide
IsSystemIdleEither(cpu_idle, net_idle) == cpu_idle \/ net_idle

IsSystemIdle(cpu_idle, net_idle) ==
    IF ~cpu_idle THEN FALSE
    ELSE IF ~net_idle THEN FALSE
    ELSE TRUE

InitIdle ==
    /\ SchedInit
    /\ clock = 0
    /\ q = QIdle
    /\ p = PIdle
    /\ mr = MRIdle
    /\ rs = RSIdle
    /\ pr = PRIdle
    /\ cc = CCIdle
    /\ hv = HvIdle
    /\ bus = BusIdle
    /\ sg = SgIdle
    /\ idl = [status |-> "run", calls |-> 0, now |-> 0, sample |-> NoSample, last |-> <<>>]

\* time.time() advances between two calls
IdleTimePasses ==
    /\ idl.status = "run"
    /\ idl.now < MaxIdleTime
    /\ idl' = [idl EXCEPT !.now = @ + 1]
    /\ UNCHANGED <<schedVars, q, p, mr, rs, pr, cc, hv, bus, sg>>

\* _run_predownload reaches `if not self._is_system_idle(): return`
IdleCall ==
    /\ idl.status = "run"
    /\ idl.calls < MaxIdleCalls
    /\ \E lf \in LoadFiles, nf \in NetFiles :
          LET cpu_idle == IsCpuIdle(lf)
              net == IsNetworkIdle(nf, idl.now, idl.sample)
              idle == IsSystemIdle(cpu_idle, net.idle)
          IN  idl' = [idl EXCEPT
                        !.calls = @ + 1,
                        !.sample = net.sample,
                        !.last = <<[load |-> lf, bytes |-> GetNetworkBytes(nf),
                                    before |-> idl.sample, at |-> idl.now,
                                    cpu_idle |-> cpu_idle, net_idle |-> net.idle,
                                    idle |-> idle, then |-> AfterIdleProbe(idle)]>>]
    /\ UNCHANGED <<schedVars, q, p, mr, rs, pr, cc, hv, bus, sg>>

NextIdle == IdleTimePasses \/ IdleCall

SpecIdle == InitIdle /\ [][NextIdle]_vars

----------------------------------------------------------------------------
(* UrpmDaemon.check_have_packages (the have() query) over a cache tree.    *)
(* A path is the sequence of its components from the root; base_dir is     *)
(* /base.  A filename is [abs, parts]: whether it begins with '/', and its *)
(* components between the '/'.  The tree is a function from the paths of   *)
(* interest to nodes [kind, size], kind "absent", "file" or "dir".  Every  *)
(* filesystem access have() makes is logged as [op, path, name], name the  *)
(* position in the input of the filename it is made for (0: for the call). *)
(* hv.del is what a writer does during the call: it removes hv.del.path    *)
(* (with what is below it) once have() has made hv.del.n accesses; n is    *)
(* None when nothing is removed.                                           *)

Absent == [kind |-> "absent", size |-> 0]
Dir == [kind |-> "dir", size |-> 0]
File(s) == [kind |-> "file", size |-> s]

BaseDir == <<"base">>
MediasDir == BaseDir \o <<"medias">>
HostDir(h) == MediasDir \o <<h>>
MediaDir(h, m) == MediasDir \o <<h, m>>

Paths ==
    {BaseDir, <<"etc">>, <<"etc", "a.rpm">>, MediasDir,
     HostDir("h1"), HostDir("h2"), MediaDir("h1", "m1"), MediaDir("h2", "m1"),
     MediaDir("h1", "a.rpm"),
     MediaDir("h1", "m1") \o <<"a.rpm">>, MediaDir("h2", "m1") \o <<"a.rpm">>,
     MediaDir("h1", "m1") \o <<"sub">>, MediaDir("h1", "m1") \o <<"sub", "a.rpm">>}

\* the order in which iterdir() yields the entries of a directory
NameOrder == <<"h1", "h2", "a.rpm", "m1", "sub">>

TreeChoices ==
    {c \in [medias : {Absent, Dir}, h1 : {Absent, File(6), Dir}, h2 : {Absent, File(7), Dir},
            m1 : {Absent, File(8), Dir}, m2 : {Absent, Dir}, stray : {Absent, File(5)},
            f1 : {Absent, File(1), Dir}, f2 : {Absent, File(2)},
            nested : {Absent, File(3)}, etc : {Absent, File(4)}] :
        /\ (c.h1 # Absent \/ c.h2 # Absent) => c.medias = Dir
        /\ (c.m1 # Absent \/ c.stray # Absent) => c.h1 = Dir
        /\ c.m2 # Absent => c.h2 = Dir
        /\ (c.f1 # Absent \/ c.nested # Absent) => c.m1 = Dir
        /\ c.f2 # Absent => c.m2 = Dir}

Tree(c) ==
    [path \in Paths |->
        CASE path = BaseDir -> Dir
          [] path = <<"etc">> -> Dir
          [] path = <<"etc", "a.rpm">> -> c.etc
          [] path = MediasDir -> c.medias
          [] path = HostDir("h1") -> c.h1
          [] path = HostDir("h2") -> c.h2
          [] path = MediaDir("h1", "m1") -> c.m1
          [] path = MediaDir("h2", "m1") -> c.m2
          [] path = MediaDir("h1", "a.rpm") -> c.stray
          [] path = MediaDir("h1", "m1") \o <<"a.rpm">> -> c.f1
          [] path = MediaDir("h2", "m1") \o <<"a.rpm">> -> c.f2
          [] path = MediaDir("h1", "m1") \o <<"sub">> -> IF c.nested = Absent THEN Absent ELSE Dir
          [] OTHER -> c.nested]

Trees == {Tree(c) : c \in TreeChoices}

Filename(abs, parts) == [abs |-> abs, parts |-> parts]
EmptyName == Filename(FALSE, <<>>)
InvalidName == Filename(FALSE, <<"<invalid>">>)
Filenames ==
    {EmptyName, Filename(FALSE, <<"weird_name">>), Filename(FALSE, <<"a.rpm">>),
     Filename(FALSE, <<"b.rpm">>), Filename(FALSE, <<"sub", "a.rpm">>),
     Filename(FALSE, <<"..", "a.rpm">>), Filename(TRUE, <<"etc", "a.rpm">>)}

NameLists == UNION {[1..n -> Filenames] : n \in 0..MaxNames}

NoDelete == [n |-> None, path |-> <<>>]

IsPrefix(a, b) == Len(a) <= Len(b) /\ SubSeq(b, 1, Len(a)) = a

\* the tree once `path` and what is below it have been removed
Removed(fs, path) ==
    [other \in DOMAIN fs |-> IF IsPrefix(path, other) THEN Absent ELSE fs[other]]

\* the tree an access sees that is made after the accesses of `log`
FsAt(w, log) ==
    IF w.del.n # None /\ Len(log) >= w.del.n THEN Removed(w.fs, w.del.path) ELSE w.fs

Node(fs, path) ==
    IF path = <<>> THEN Dir ELSE IF path \in DOMAIN fs THEN fs[path] ELSE Absent

\* the kernel's path lookup: every component but the last names a
\* directory, and '..' names the parent
RECURSIVE WalkFrom(_, _, _)
WalkFrom(fs, cur, rest) ==
    IF rest = <<>> THEN cur
    ELSE IF Node(fs, cur).kind # "dir" THEN <<"?">>
    ELSE WalkFrom(fs, IF Head(rest) = ".." THEN SubSeq(cur, 1, Len(cur) - 1)
                      ELSE Append(cur, Head(rest)),
                  Tail(rest))

Located(fs, path) == WalkFrom(fs, <<>>, path)
Lookup(fs, path) == Node(fs, Located(fs, path))

\* Path.exists(), Path.is_dir(), Path.is_file(): False when the lookup fails
Exists(fs, path) == Lookup(fs, path).kind # "absent"
IsDirectory(fs, path) == Lookup(fs, path).kind = "dir"
IsFile(fs, path) == Lookup(fs, path).kind = "file"

\* Path.iterdir() of a directory: its entries, in the order of NameOrder
Listing(fs, dir) ==
    SelectSeq(NameOrder, LAMBDA n : Node(fs, Append(dir, n)).kind # "absent")

\* media_dir / filename: an absolute right operand replaces the left one
Join(dir, fn) == IF fn.abs THEN fn.parts ELSE dir \o fn.parts

\* f"{hostname_dir.name}/{media_dir.name}/{filename}", cut at every '/'
RelPath(h, m, fn) == <<h, m>> \o (IF fn.abs THEN <<"">> ELSE <<>>) \o fn.parts

\* if not filename or not filename.endswith('.rpm')
ValidAny(fn) == TRUE

Valid(fn) ==
    /\ fn.parts # <<>>
    /\ fn.parts[Len(fn.parts)] \in {"a.rpm", "b.rpm"}

Access(op, path, k) == [op |-> op, path |-> path, name |-> k]

\* for media_dir in hostname_dir.iterdir(): ... over the entries left;
\* st is [log, found, raised], found <<>> or the one entry appended
RECURSIVE MediaLoop(_, _, _, _, _, _)
MediaLoop(w, k, fn, h, entries, st) ==
    IF entries = <<>> THEN st
    ELSE
      LET m == Head(entries)
          mdir == MediaDir(h, m)
          fp == Join(mdir, fn)
          l1 == Append(st.log, Access("is_dir", mdir, k))
          l2 == Append(l1, Access("exists", fp, k))
          l3 == Append(l2, Access("is_file", fp, k))
          l4 == Append(l3, Access("stat", fp, k))
          skip(l) == MediaLoop(w, k, fn, h, Tail(entries), [st EXCEPT !.log = l])
      IN  IF ~IsDirectory(FsAt(w, st.log), mdir) THEN skip(l1)
          ELSE IF ~Exists(FsAt(w, l1), fp) THEN skip(l2)
          ELSE IF ~IsFile(FsAt(w, l2), fp) THEN skip(l3)
          ELSE IF ~Exists(FsAt(w, l3), fp) THEN skip(l4)
          ELSE [st EXCEPT !.log = l4,
                          !.found = <<[filename |-> fn,
                                       size |-> Lookup(FsAt(w, l3), fp).size,
                                       path |-> RelPath(h, m, fn),
                                       at |-> Located(FsAt(w, l3), fp)]>>]

\* for hostname_dir in medias_dir.iterdir(): ... over the entries left
RECURSIVE HostLoop(_, _, _, _, _)
HostLoop(w, k, fn, entries, st) ==
    IF entries = <<>> \/ st.found # <<>> \/ st.raised THEN st
    ELSE
      LET h == Head(entries)
          l1 == Append(st.log, Access("is_dir", HostDir(h), k))
          l2 == Append(l1, Access("iterdir", HostDir(h), k))
      IN  IF ~IsDirectory(FsAt(w, st.log), HostDir(h))
            THEN HostLoop(w, k, fn, Tail(entries), [st EXCEPT !.log = l1])
          ELSE IF ~IsDirectory(FsAt(w, l1), HostDir(h))
            THEN [st EXCEPT !.log = l2, !.raised = TRUE]
          ELSE HostLoop(w, k, fn, Tail(entries),
                        MediaLoop(w, k, fn, h, Listing(FsAt(w, l1), HostDir(h)),
                                  [st EXCEPT !.log = l2]))

\* if not found: missing.append(filename)
MissedAlways(missing, found, fn) == Append(missing, fn)

Missed(missing, found, fn) == IF found = <<>> THEN Append(missing, fn) ELSE missing

\* the body of `for filename in packages`, for the filename at position k;
\* st is [log, available, missing, raised]
HaveName(w, k, fn, st) ==
    IF ~Valid(fn)
      THEN [st EXCEPT !.missing = Append(@, IF fn = EmptyName THEN InvalidName ELSE fn)]
    ELSE
      LET l1 == Append(st.log, Access("iterdir", MediasDir, k))
          fs == FsAt(w, st.log)
          r == HostLoop(w, k, fn, Listing(fs, MediasDir),
                        [log |-> l1, found |-> <<>>, raised |-> FALSE])
      IN  IF ~IsDirectory(fs, MediasDir) THEN [st EXCEPT !.log = l1, !.raised = TRUE]
          ELSE IF r.raised THEN [st EXCEPT !.log = r.log, !.raised = TRUE]
          ELSE [st EXCEPT !.log = r.log,
                          !.available = @ \o r.found,
                          !.missing = Missed(@, r.found, fn)]

RECURSIVE NamesLoop(_, _, _, _)
NamesLoop(w, names, k, st) ==
    IF k > Len(names) \/ st.raised THEN st
    ELSE NamesLoop(w, names, k + 1, HaveName(w, k, names[k], st))

\* check_have_packages(packages): the dict it returns and the accesses it
\* made, or raised when an exception leaves it
CheckHavePackages(w, names) ==
    LET l0 == <<Access("exists", MediasDir, 0)>>
        st == NamesLoop(w, names, 1,
                        [log |-> l0, available |-> <<>>, missing |-> <<>>, raised |-> FALSE])
    IN  IF ~Exists(FsAt(w, <<>>), MediasDir)
          THEN [raised |-> FALSE, log |-> l0, available |-> <<>>, missing |-> names,
                available_count |-> 0, missing_count |-> Len(names)]
        ELSE [raised |-> st.raised, log |-> st.log,
              available |-> st.available, missing |-> st.missing,
              available_count |-> Len(st.available), missing_count |-> Len(st.missing)]

HaveInit(trees, lists, dels) ==
    /\ SchedInit
    /\ clock = 0
    /\ q = QIdle
    /\ p = PIdle
    /\ mr = MRIdle
    /\ rs = RSIdle
    /\ pr = PRIdle
    /\ cc = CCIdle
    /\ idl = IdlIdle
    /\ bus = BusIdle
    /\ sg = SgIdle
    /\ hv \in {[status |-> "start", i |-> 0, fs |-> fs, del |-> d, names |-> ns] :
                  fs \in trees, ns \in lists, d \in dels}

\* a static cache tree and any list of filenames
InitHave == HaveInit(Trees, NameLists, {NoDelete})

\* one call of have()
HaveCall ==
    /\ hv.status = "start"
    /\ hv' = [status |-> "done", i |-> Len(hv.names), fs |-> hv.fs, del |-> hv.del,
              names |-> hv.names,
              result |-> CheckHavePackages([fs |-> hv.fs, del |-> hv.del], hv.names)]
    /\ UNCHANGED <<schedVars, q, p, mr, rs, pr, cc, idl, bus, sg>>

NextHave == HaveCall

SpecHave == InitHave /\ [][NextHave]_vars

\* a cache tree in which a writer removes one file or directory while
\* have() looks for a.rpm
Deletes ==
    {[n |-> k, path |-> path] :
        k \in 0..MaxAccesses, path \in {other \in Paths : IsPrefix(MediasDir, other)}}

InitHaveRace ==
    /\ HaveInit({fs \in Trees : fs[MediasDir] = Dir}, {<<Filename(FALSE, <<"a.rpm">>)>>}, Deletes)
    /\ hv.fs[hv.del.path] # Absent

SpecHaveRace == InitHaveRace /\ [][NextHave]_vars

----------------------------------------------------------------------------
(* The D-Bus service (urpm/dbus/service.py): the GLib main loop, thread 0, *)
(* dispatches the method calls; every authorized write operation runs in a *)
(* background thread of its own, threads 1..MaxOps.                        *)
(*   bus.db     - self._db: [made, open, opener], opener the thread that   *)
(*                called PackageDatabase()                                 *)
(*   bus.users  - the threads that have used the handle self._db           *)
(*   bus.active - self._active_operations                                  *)
(*   bus.op     - per background thread: the operation it runs, where it   *)
(*                is ("none", "started", "working", "finishing", "done"),  *)
(*                and the signals and the method return the main loop has  *)
(*                delivered for it, in order                               *)
(*   bus.queue  - the callbacks handed to GLib.idle_add and not yet run    *)
(*   bus.last   - the last write call: what authorization met, what the    *)
(*                handler returned, whether it registered an operation     *)
(*                and started a thread                                     *)

MainLoop == 0
Workers == 1..MaxOps
WriteMethods == {"install", "remove", "upgrade", "refresh"}

NoHandle == [made |-> FALSE, open |-> FALSE, opener |-> MainLoop]
NoOp == [method |-> "none", pc |-> "none", seen |-> <<>>]

\* _init_core, called by thread t: if self._db is not None: return;
\* self._db = PackageDatabase()
InitCore(b, t) ==
    IF b.db.made THEN b
    ELSE [b EXCEPT !.db = [made |-> TRUE, open |-> TRUE, opener |-> t]]

\* thread t makes a call on the handle self._db
UseDb(b, t) == [b EXCEPT !.users = @ \cup {t}]

\* what _authorize meets: _get_caller_credentials returning a pid or
\* (None, None), and create_auth_context granting, denying or raising
AuthInputs ==
    {[creds |-> "fail", polkit |-> "uncalled"]} \cup
    [creds : {"ok"}, polkit : {"granted", "denied", "raise"}]

\* _authorize: if pid is None: return None; if denied: return None;
\* except Exception: return None; return context
AuthorizeUnlessRaised(a) ==
    IF a.creds = "fail" \/ a.polkit = "raise" THEN "none" ELSE "context"

Authorize(a) ==
    IF a.creds = "fail" THEN "none"
    ELSE IF a.polkit = "granted" THEN "context" ELSE "none"

\* return False, "Authorization denied" / return None (answered later)
Denied == [success |-> FALSE, error |-> "Authorization denied"]
Deferred == [success |-> FALSE, error |-> "deferred"]
NoCall == [auth |-> [creds |-> "ok", polkit |-> "granted"], ret |-> Deferred,
           registered |-> FALSE, spawned |-> FALSE]

\* the paths of _run_install, _run_remove and _run_upgrade: before the
\* download or removal step (resolution failed, nothing to do) and after it
\* (no packages downloaded / nothing to upgrade, done), or an exception;
\* of _run_refresh: sync_all_media returning ok + fail results, or raising
Outcomes(method, worked) ==
    IF method = "refresh"
      THEN {[path |-> "synced", ok |-> a, fail |-> b] :
               a \in 0..MaxMedia, b \in 0..MaxMedia} \cup
           {[path |-> "exception", ok |-> 0, fail |-> 0]}
      ELSE {[path |-> x, ok |-> 0, fail |-> 0] :
               x \in IF ~worked THEN {"unresolved", "nothing", "exception"}
                     ELSE IF method = "remove" THEN {"success", "exception"}
                     ELSE {"nodownload", "success", "exception"}}

\* the success flag given to _emit_complete
CompleteFlag(method, o) ==
    CASE o.path = "synced" -> IF o.fail = 0 THEN TRUE ELSE o.fail = o.ok + o.fail
      [] o.path = "nodownload" -> method = "upgrade"
      [] o.path \in {"nothing", "success"} -> TRUE
      [] OTHER -> FALSE

\* the success flag given to _return_invocation
ReturnFlag(method, o) ==
    CASE o.path = "synced" -> IF o.fail = 0 THEN TRUE ELSE o.ok > 0
      [] o.path = "nodownload" -> method = "upgrade"
      [] o.path \in {"nothing", "success"} -> TRUE
      [] OTHER -> FALSE

\* GLib.idle_add(_emit) of _emit_progress
Progress(w) == [kind |-> "progress", id |-> w, success |-> FALSE]

\* self._emit_complete(op_id, ...); self._return_invocation(invocation, ...):
\* the two callbacks every path of a run function ends with
CompletionSignalOnly(w, method, o) ==
    IF o.path = "nothing"
      THEN <<[kind |-> "complete", id |-> w, success |-> CompleteFlag(method, o)]>>
      ELSE <<[kind |-> "complete", id |-> w, success |-> CompleteFlag(method, o)],
             [kind |-> "return", id |-> w, success |-> ReturnFlag(method, o)]>>

Completion(w, method, o) ==
    <<[kind |-> "complete", id |-> w, success |-> CompleteFlag(method, o)],
      [kind |-> "return", id |-> w, success |-> ReturnFlag(method, o)]>>

InitDbus ==
    /\ SchedInit
    /\ clock = 0
    /\ q = QIdle
    /\ p = PIdle
    /\ mr = MRIdle
    /\ rs = RSIdle
    /\ pr = PRIdle
    /\ cc = CCIdle
    /\ idl = IdlIdle
    /\ hv = HvIdle
    /\ bus = [status |-> "run", ops |-> 0, db |-> NoHandle, users |-> {},
              active |-> {}, op |-> [w \in Workers |-> NoOp],
              queue |-> <<>>, last |-> NoCall]
    /\ sg = SgIdle

\* handle_search_packages, handle_get_package_info, handle_get_updates: on
\* the main loop, self._init_core() and a call of self._ops
HandleRead ==
    /\ bus.status = "run"
    /\ bus' = UseDb(InitCore(bus, MainLoop), MainLoop)
    /\ UNCHANGED <<schedVars, q, p, mr, rs, pr, cc, idl, hv, sg>>

\* handle_install_packages, handle_remove_packages, handle_upgrade_packages,
\* handle_refresh_metadata: self._init_core(); context = self._authorize(...);
\* if context is None: return False, "Authorization denied"; else register
\* the operation, start its thread and return None
HandleWrite ==
    /\ bus.status = "run"
    /\ \E method \in WriteMethods, a \in AuthInputs :
          LET granted == Authorize(a) = "context"
              w == bus.ops + 1
              b1 == InitCore(bus, MainLoop)
              b2 == IF granted
                      THEN [b1 EXCEPT !.ops = w,
                                      !.active = @ \cup {w},
                                      !.op[w] = [NoOp EXCEPT !.method = method,
                                                             !.pc = "started"]]
                      ELSE b1
          IN  /\ granted => bus.ops < MaxOps
              /\ bus' = [b2 EXCEPT !.last =
                            [auth |-> a,
                             ret |-> IF granted THEN Deferred ELSE Denied,
                             registered |-> b2.active # bus.active,
                             spawned |-> b2.ops # bus.ops]]
    /\ UNCHANGED <<schedVars, q, p, mr, rs, pr, cc, idl, hv, sg>>

\* _run_install, _run_remove, _run_upgrade: self._emit_progress(op_id,
\* "resolving", ...); Resolver(self._db, ...); _run_refresh:
\* self._emit_progress(op_id, "refreshing", ...); sync_all_media(self._db, ...)
RunWrite(w) ==
    /\ bus.status \in {"run", "stopped"}
    /\ bus.op[w].pc = "started"
    /\ bus' = [UseDb(bus, w) EXCEPT !.op[w].pc = "working",
                                    !.queue = Append(@, Progress(w))]
    /\ UNCHANGED <<schedVars, q, p, mr, rs, pr, cc, idl, hv, sg>>

\* the rest of the run function, along one of its paths: after a
\* resolution with actions (for a refresh, from refresh_progress) another
\* self._emit_progress(...); then, in the try block or in its except clause,
\* _emit_complete and _return_invocation
CompleteWrite(w) ==
    /\ bus.status \in {"run", "stopped"}
    /\ bus.op[w].pc = "working"
    /\ \E worked \in BOOLEAN :
       \E o \in Outcomes(bus.op[w].method, worked) :
          bus' = [bus EXCEPT !.op[w].pc = "finishing",
                             !.queue = @ \o (IF worked THEN <<Progress(w)>> ELSE <<>>)
                                         \o Completion(w, bus.op[w].method, o)]
    /\ UNCHANGED <<schedVars, q, p, mr, rs, pr, cc, idl, hv, sg>>

\* finally: with self._lock: self._active_operations.pop(op_id, None)
EndWrite(w) ==
    /\ bus.status \in {"run", "stopped"}
    /\ bus.op[w].pc = "finishing"
    /\ bus' = [bus EXCEPT !.op[w].pc = "done", !.active = @ \ {w}]
    /\ UNCHANGED <<schedVars, q, p, mr, rs, pr, cc, idl, hv, sg>>

\* the main loop runs the oldest idle callback: emit_signal(...) or
\* invocation.return_value(...)
Dispatch ==
    /\ bus.status = "run"
    /\ bus.queue # <<>>
    /\ LET e == Head(bus.queue)
       IN  bus' = [bus EXCEPT !.queue = Tail(@),
                              !.op[e.id].seen = Append(@, [kind |-> e.kind,
                                                           success |-> e.success])]
    /\ UNCHANGED <<schedVars, q, p, mr, rs, pr, cc, idl, hv, sg>>

\* run(): self._loop.run() returns; finally: if self._db: self._db.close()
Quit ==
    /\ bus.status = "run"
    /\ bus' = IF bus.db.made
                THEN [UseDb(bus, MainLoop) EXCEPT !.status = "stopped", !.db.open = FALSE]
                ELSE [bus EXCEPT !.status = "stopped"]
    /\ UNCHANGED <<schedVars, q, p, mr, rs, pr, cc, idl, hv, sg>>

WorkerStep(w) ==
    \/ RunWrite(w)
    \/ CompleteWrite(w)
    \/ EndWrite(w)

NextDbus ==
    \/ HandleRead
    \/ HandleWrite
    \/ \E w \in Workers : WorkerStep(w)
    \/ Dispatch
    \/ Quit

SpecDbus == InitDbus /\ [][NextDbus]_vars

\* the operating system schedules every thread, and a running main loop
\* runs its idle callbacks
SpecDbusLive ==
    /\ InitDbus
    /\ [][NextDbus]_vars
    /\ WF_vars(Dispatch)
    /\ \A w \in Workers :
          WF_vars(RunWrite(w) \/ CompleteWrite(w) \/ EndWrite(w))

----------------------------------------------------------------------------
(* The daemon's main thread (urpm/daemon/daemon.py).  start() installs the  *)
(* signal handlers, opens the store, starts the server and blocks in        *)
(* server.serve_forever().  CPython runs a signal handler in the main       *)
(* thread, between two of its bytecodes: while a handler runs, the main     *)
(* thread does nothing else.  sg.main is what the main thread is doing,     *)
(* sg.log the sync_media calls made, each with the thread that made it and  *)
(* the number of the SIGHUP it belongs to.                                   *)

SigMediaKinds == [enabled : BOOLEAN, sync : {"ok", "fail", "raise"}]
SigMediaLists == UNION {[1..n -> SigMediaKinds] : n \in 0..MaxMedia}

\* the thread in which _signal_reload runs refresh_metadata
ReloadThread == "main"

\* sync_media(self.db, name, force=force), force=True from _signal_reload
ReloadSync(i, n) == [idx |-> i, force |-> TRUE, by |-> ReloadThread, n |-> n]

InitSignal ==
    /\ SchedInit
    /\ clock = 0
    /\ q = QIdle
    /\ p = PIdle
    /\ mr = MRIdle
    /\ rs = RSIdle
    /\ pr = PRIdle
    /\ cc = CCIdle
    /\ idl = IdlIdle
    /\ hv = HvIdle
    /\ bus = BusIdle
    /\ sg \in {[status |-> "run", signals |-> 0, main |-> "starting",
                ret |-> "starting", running |-> TRUE, server |-> "none",
                dbopen |-> FALSE, media |-> ml, i |-> 0, log |-> <<>>,
                spawned |-> 0, done |-> <<>>] : ml \in SigMediaLists}

\* start(): self.db = PackageDatabase(...); self.server.start(self);
\* self.server.serve_forever()
DaemonOpen ==
    /\ sg.status = "run"
    /\ sg.main = "starting"
    /\ sg' = [sg EXCEPT !.dbopen = TRUE, !.server = "serving", !.main = "serving"]
    /\ UNCHANGED <<schedVars, q, p, mr, rs, pr, cc, idl, hv, bus>>

\* _signal_handler (SIGTERM, SIGINT): self._running = False; if self.server:
\* threading.Thread(target=self.server.stop).start()
SignalHandler ==
    /\ sg.status = "run"
    /\ sg.main # "stopped"
    /\ sg.signals < MaxSignals
    /\ sg' = [sg EXCEPT !.signals = @ + 1,
                        !.running = FALSE,
                        !.spawned = IF sg.server # "none" THEN @ + 1 ELSE @]
    /\ UNCHANGED <<schedVars, q, p, mr, rs, pr, cc, idl, hv, bus>>

\* _signal_reload (SIGHUP): self.refresh_metadata(force=True);
\* refresh_metadata: if not self.db: return {'error': ...};
\* for media in self.db.list_media(): ... (list_media may raise)
SignalReload ==
    /\ sg.status = "run"
    /\ sg.main \in {"starting", "serving"}
    /\ sg.signals < MaxSignals
    /\ \E listing \in {"ok", "raise"} :
          IF sg.dbopen /\ listing = "ok"
            THEN sg' = [sg EXCEPT !.signals = @ + 1, !.ret = sg.main,
                                  !.main = "reload", !.i = 0]
            ELSE sg' = [sg EXCEPT !.signals = @ + 1,
                                  !.done = Append(@, [listed |-> FALSE])]
    /\ UNCHANGED <<schedVars, q, p, mr, rs, pr, cc, idl, hv, bus>>

\* refresh_metadata, one turn of the loop: if media['enabled']:
\* result = sync_media(self.db, name, force=force); an exception of
\* sync_media goes to the except clause around the whole loop
RefreshVisit ==
    /\ sg.status = "run"
    /\ sg.main = "reload"
    /\ sg.i < Len(sg.media)
    /\ LET i == sg.i + 1
           md == sg.media[i]
       IN  IF ~md.enabled
             THEN sg' = [sg EXCEPT !.i = i]
             ELSE IF md.sync = "raise"
                    THEN sg' = [sg EXCEPT !.i = i,
                                  !.log = Append(@, ReloadSync(i, Len(sg.done) + 1)),
                                  !.main = sg.ret,
                                  !.done = Append(@, [listed |-> TRUE])]
                    ELSE sg' = [sg EXCEPT !.i = i,
                                  !.log = Append(@, ReloadSync(i, Len(sg.done) + 1))]
    /\ UNCHANGED <<schedVars, q, p, mr, rs, pr, cc, idl, hv, bus>>

\* refresh_metadata after the loop: return {'success': True, ...}; the
\* handler returns
RefreshReturn ==
    /\ sg.status = "run"
    /\ sg.main = "reload"
    /\ sg.i = Len(sg.media)
    /\ sg' = [sg EXCEPT !.main = sg.ret, !.done = Append(@, [listed |-> TRUE])]
    /\ UNCHANGED <<schedVars, q, p, mr, rs, pr, cc, idl, hv, bus>>

\* the thread spawned by _signal_handler runs server.stop(); serve_forever()
\* returns in the main thread once no handler holds it, and stop() follows
ServerStop ==
    /\ sg.status = "run"
    /\ sg.spawned > 0
    /\ sg.main \in {"serving", "stopped"}
    /\ sg' = [sg EXCEPT !.spawned = @ - 1, !.server = "stopped",
                        !.main = "stopped", !.dbopen = FALSE]
    /\ UNCHANGED <<schedVars, q, p, mr, rs, pr, cc, idl, hv, bus>>

NextSignal ==
    \/ DaemonOpen
    \/ SignalHandler
    \/ SignalReload
    \/ RefreshVisit
    \/ RefreshReturn
    \/ ServerStop

SpecSignal == InitSignal /\ [][NextSignal]_vars

----------------------------------------------------------------------------
(* Properties *)

Abs(a) == IF a >= 0 THEN a ELSE 0 - a
InLog(log, e) == \E i \in 1..Len(log) : log[i] = e
Count(log, e) == Cardinality({i \in 1..Len(log) : log[i] = e})
Before(log, a, b) == \E i, j \in 1..Len(log) : i < j /\ log[i] = a /\ log[j] = b
TickOver(t) == pc[t] \in {"sleep", "slice"}

\* C1: when the body of a task raises at a tick where the task is due, the
\* tick still ends with a next-fire time for that task later than the tick,
\* so the task is not left due with its old next-fire time.
C1_FailingTaskIsRescheduled ==
    \A t \in Threads :
        TickOver(t) =>
          /\ InLog(events[t], "raise_metadata") => next["metadata"] > now[t]
          /\ InLog(events[t], "download_raise") => next["predownload"] > now[t]

\* C2 as stated: every next-fire time that is set is an integer multiple of
\* the tick interval T.
C2_NextFireMultipleOfTick ==
    \A task \in Tasks : next[task] # None => next[task] % tick_interval = 0

\* C2 amended: whenever a next-fire time is set (by the first-fire offset or
\* by _schedule_next), it is the `now` of the tick evaluation setting it plus
\* a positive integer multiple of T: the delay is quantized, not the time.
C2_DelayMultipleOfTick ==
    [][\A task \in Tasks :
          next'[task] # next[task] =>
            \E t \in Threads :
               /\ pc[t] \in {EvalPc(task), SchedPc(task)}
               /\ pc'[t] # pc[t]
               /\ next'[task] > now[t]
               /\ (next'[task] - now[t]) % tick_interval = 0]_vars

C2_Witness ==
    \E t \in Threads :
       /\ InLog(events[t], "sched_metadata")
       /\ next["metadata"] % tick_interval # 0
       /\ (next["metadata"] - now[t]) % tick_interval = 0

\* C3: in a predownload run whose download step returns without raising,
\* cache cleanup runs exactly once, after the download step; and cache
\* cleanup runs nowhere but in a predownload run, after its download step.
C3_CleanupOncePerSuccessfulPredownload ==
    \A t \in Threads :
        LET log == events[t] IN
        /\ (InLog(log, "download_end") /\ pc[t] # "pre_cleanup") =>
              /\ Count(log, "cleanup") = 1
              /\ Before(log, "download_end", "cleanup")
        /\ Count(log, "cleanup") <= 1
        /\ (InLog(log, "cleanup") \/ pc[t] = "pre_cleanup") =>
              /\ Before(log, "start_predownload", "download_end")
              /\ ~InLog(log, "download_raise")
              /\ ~InLog(log, "skip_predownload")

C3_Witness ==
    \E t \in Threads :
       /\ TickOver(t)
       /\ Before(events[t], "download_end", "cleanup")
       /\ InLog(events[t], "sched_predownload")

\* C4: at a tick where metadata_check and predownload are both due, the
\* metadata_check run has ended before the predownload run starts.
C4_MetadataBeforePredownload ==
    \A t \in Threads :
        (due[t] = Tasks /\ InLog(events[t], "start_predownload")) =>
            Before(events[t], "end_metadata", "start_predownload")

C4_Witness ==
    \E t \in Threads :
       /\ due[t] = Tasks
       /\ pc[t] = "pre_download"
       /\ Before(events[t], "end_metadata", "start_predownload")

\* C5: two executions of the same task never overlap, under any sequence of
\* start(), stop() and tick evaluations.
InMetadataRun(t) == pc[t] \in {"meta_body", "meta_work"}
InPredownloadRun(t) == pc[t] \in {"pre_body", "pre_idle", "pre_download", "pre_cleanup"}

C5_NoOverlappingRuns ==
    \A t, u \in Threads :
        t # u => /\ ~(InMetadataRun(t) /\ InMetadataRun(u))
                 /\ ~(InPredownloadRun(t) /\ InPredownloadRun(u))

Closed(t) == pc[t] = "done" => (t \notin handles /\ db = 0)

\* C6 as stated: once _running is False the scheduler thread evaluates no
\* further task, ends at most the sleep(1) in progress, and has closed its
\* database handle when it has left the loop.
C6_NoEvaluationAfterShutdown ==
    \A t \in Threads :
        /\ \A task \in Tasks : afterStop[t].evals[task] = 0
        /\ afterStop[t].sleeps <= 1
        /\ Closed(t)

\* C6 amended: once _running is False the scheduler thread evaluates each
\* task at most once more (in the tick evaluation that the loop test had
\* admitted before the flag fell, where a due predownload still starts after
\* a metadata_check), ends at most the sleep(1) in progress, and has closed
\* its database handle when it has left the loop.
C6_ShutdownWithinTickAndSlice ==
    \A t \in Threads :
        /\ \A task \in Tasks : afterStop[t].evals[task] <= 1
        /\ afterStop[t].sleeps <= 1
        /\ Closed(t)

C6_Witness ==
    \E t \in Threads :
       /\ ~running
       /\ pc[t] = "done"
       /\ handles = {}
       /\ afterStop[t].sleeps = 1
       /\ slept[t] < tick_interval

\* C7: the delay of _schedule_next is max(1, round(base * (1 + jitter) / T)) * T:
\* a positive multiple n * T of T where n is the integer nearest to
\* base * (1 + jitter) / T (a tie going to the even one), or 1 when that
\* quotient rounds to 0; for T = 10, base = 120, jitter = +0.15 it is 140.
C7_DelayIsRoundedTicks ==
    q.delay # None =>
        LET raw == q.base * (JitterDen + q.e)
            slot == JitterDen * q.T
            n == q.delay \div q.T
        IN  /\ q.delay % q.T = 0
            /\ n >= 1
            /\ \/ 2 * Abs(n * slot - raw) < slot
               \/ 2 * Abs(n * slot - raw) = slot /\ n % 2 = 0
               \/ n = 1 /\ 2 * raw <= slot
            /\ (q.T = 10 /\ q.base = 120 /\ 100 * q.e = 15 * JitterDen) => q.delay = 140

C7_Witness ==
    /\ q.T = 10
    /\ q.base = 120
    /\ 100 * q.e = 15 * JitterDen
    /\ q.delay = 140

\* C8: every delay d of a reschedule has |d - base| <= 0.30 * base + T.
C8_DelayWithinJitterAndSlot ==
    q.delay # None =>
        100 * Abs(q.delay - q.base) <= jitter_factor * q.base + 100 * q.T

C8_Witness ==
    /\ q.delay # None
    /\ q.T = prod_tick_interval
    /\ q.base = DEFAULT_PREDOWNLOAD_CHECK_INTERVAL
    /\ 100 * (q.delay - q.base) = jitter_factor * q.base

\* C9: the first evaluation of a task does not run it and sets its next-fire
\* time to now + k * T with 1 <= k <= max(1, floor(0.5 * base / T)), for both
\* tasks; for metadata_check (T = 10, base = 60) the delay is 10, 20 or 30.
C9_FirstFireOffset ==
    [][\A t \in Threads : \A task \in Tasks :
          (pc[t] = EvalPc(task) /\ pc'[t] # pc[t] /\ next[task] = None) =>
             LET delay == next'[task] - now[t] IN
             /\ next'[task] # None
             /\ delay % tick_interval = 0
             /\ delay >= tick_interval
             /\ delay = tick_interval \/ 2 * delay <= Interval(task)
             /\ task = "metadata" => delay \in {10, 20, 30}
             /\ pc'[t] \notin {"meta_body", "meta_work", "pre_body"}
             /\ ~InLog(events'[t], "start_" \o task)]_vars

C9_Witness ==
    \E t \in Threads :
       /\ events[t] = <<"first_metadata", "first_predownload">>
       /\ next["metadata"] = now[t] + 30
       /\ next["predownload"] = now[t] + 60

\* C10: when the local synthesis file does not exist the prober answers
\* "changed" and has issued no HTTP request.
C10_MissingLocalFileIsChanged ==
    (p.result # "none" /\ p.local = "absent") =>
        (p.result = "changed" /\ p.requests = 0)

C10_Witness ==
    /\ p.local = "absent"
    /\ p.http = "ok"
    /\ p.clen.kind = "int"
    /\ p.clen.val = p.lsize
    /\ p.result = "changed"
    /\ p.requests = 0

\* a probe that found the local file, read its size and mtime, and got a response
Answered == p.result # "none" /\ p.local = "present" /\ p.stat = "ok" /\ p.http = "ok"

SizeKnown == p.clen.kind = "int"
DateUsable == p.lastmod.kind = "date"

C12_FailedHeadIsChanged ==
    (p.result # "none" /\ p.local = "present" /\ p.stat = "ok" /\ p.http # "ok") =>
        p.result = "changed"

\* C13: when a response header cannot be used (Content-Length missing or no
\* integer, Last-Modified missing or no date) the prober decides on the
\* remaining usable header alone, answers "changed" when neither is usable,
\* and never raises.
C13_UnusableHeaderFallsBack ==
    (Answered /\ (~SizeKnown \/ ~DateUsable)) =>
        /\ p.result # "raise"
        /\ (SizeKnown /\ ~DateUsable) =>
              p.result = (IF p.clen.val # p.lsize THEN "changed" ELSE "unchanged")
        /\ (~SizeKnown /\ DateUsable) =>
              p.result = (IF p.lastmod.val > p.lmtime THEN "changed" ELSE "unchanged")
        /\ (~SizeKnown /\ ~DateUsable) => p.result = "changed"

Probed(i) == \E k \in 1..Len(mr.log) : mr.log[k] = ProbeCall(i)
SyncCalls(i) == {k \in 1..Len(mr.log) : mr.log[k].op = "sync" /\ mr.log[k].idx = i}
RunOver == mr.status \in {"returned", "raised"}

\* C14: during a metadata_check run, sync_media is called with force=True
\* exactly once for every enabled media whose probe answered "changed", and
\* never for a media whose probe answered "unchanged", a disabled media or a
\* media that was not probed.
C14_SyncExactlyForChanged ==
    /\ \A k \in 1..Len(mr.log) : mr.log[k].op = "sync" => mr.log[k].force
    /\ \A i \in 1..Len(mr.media) :
          LET md == mr.media[i] IN
          /\ (Probed(i) /\ md.probe = "changed") => Cardinality(SyncCalls(i)) = 1
          /\ (~Probed(i) \/ md.probe # "changed") => SyncCalls(i) = {}
          /\ Probed(i) => md.enabled

C14_Witness ==
    /\ mr.status = "returned"
    /\ Len(mr.media) = 2
    /\ mr.media[1] = [enabled |-> TRUE, url |-> TRUE, probe |-> "changed", sync |-> "raise"]
    /\ mr.media[2] = [enabled |-> TRUE, url |-> TRUE, probe |-> "unchanged", sync |-> "ok"]
    /\ mr.log = <<ProbeCall(1), SyncCall(1), ProbeCall(2)>>

\* C15: a failure tied to one media (its probe raising, its sync raising or
\* failing) does not stop the run: when the run is over, every enabled media
\* that has a url has been probed.
C15_FailureDoesNotStopRun ==
    (RunOver /\ mr.i >= 1) =>
        \A i \in 1..Len(mr.media) :
           (mr.media[i].enabled /\ mr.media[i].url) => Probed(i)

C17_EmptyListEndsRun ==
    (pr.status # "idle" /\ pr.resolver = "ok" /\ pr.actions = <<>>) =>
        /\ ~InLog(pr.log, "idle_probe")
        /\ ~InLog(pr.log, "download")
        /\ ~InLog(pr.log, "cleanup")

\* C18: a predownload run whose total size is strictly greater than
\* max_predownload_size, or that finds the host not idle, issues no download
\* and runs no cache cleanup; a total equal to max_predownload_size is not
\* skipped for its size (the run goes on to the idle probe and, on an idle
\* host, to the download step).
C18_TooLargeOrBusySkips ==
    (pr.status # "idle" /\ pr.resolver = "ok") =>
        LET total == TotalSize(pr.actions) IN
        /\ (total > max_predownload_size \/ ~pr.idle) =>
              /\ ~InLog(pr.log, "packages")
              /\ ~InLog(pr.log, "download")
              /\ ~InLog(pr.log, "cleanup")
        /\ (total = max_predownload_size /\ pr.status = "done") =>
              /\ InLog(pr.log, "idle_probe")
              /\ pr.idle => InLog(pr.log, "packages")

C18_Witness ==
    /\ pr.status = "done"
    /\ Len(pr.actions) = 2
    /\ pr.actions[1].size = max_predownload_size - 1
    /\ pr.actions[2].size = 1
    /\ pr.log = <<"resolve", "idle_probe", "packages", "download", "cleanup">>

CleanupOver == cc.status \in {"cleaned", "aborted"}
Deleted(i) == cc.before[i].exists /\ ~cc.files[i].exists
OldRpm(i) ==
    cc.before[i].exists /\ cc.before[i].rpm /\ cc.before[i].mtime < cc.now - cache_max_age

\* C19: cache cleanup never deletes a cache file that a still-pending
\* resolver action refers to, including the files the downloader reported
\* as already cached (and did not rewrite) in the run that triggers it.
C19_PendingArtifactsKept ==
    CleanupOver => \A i \in 1..MaxFiles : cc.before[i].pending => ~Deleted(i)

\* C20 as stated: a cleanup run with no per-file error deletes exactly the
\* *.rpm files whose mtime is strictly older than now - 30 days.
C20_DeletesExactlyOldRpms ==
    (CleanupOver /\ \A i \in 1..MaxFiles : ~cc.before[i].oserror) =>
        \A i \in 1..MaxFiles : Deleted(i) <=> OldRpm(i)

\* C20 amended: a cleanup run deletes only *.rpm files whose mtime is
\* strictly older than now - 30 days (every .rpm file at or newer than the
\* threshold and every other file is left in place), and it deletes every
\* one of them when the run has no per-file error and its db.list_media()
\* call does not raise; when that call raises the run deletes nothing.
C20_DeletesOnlyOldRpms ==
    CleanupOver =>
        /\ \A i \in 1..MaxFiles : Deleted(i) => OldRpm(i)
        /\ (cc.listMedia = "ok" /\ \A i \in 1..MaxFiles : ~cc.before[i].oserror) =>
              \A i \in 1..MaxFiles : OldRpm(i) => Deleted(i)
        /\ cc.listMedia = "raise" => \A i \in 1..MaxFiles : ~Deleted(i)

C20_Witness ==
    /\ cc.status = "cleaned"
    /\ OldRpm(1) /\ Deleted(1)
    /\ cc.before[2].rpm /\ cc.before[2].mtime = cc.now - cache_max_age
    /\ cc.files[2].exists

IdleCalled == idl.status = "run" /\ idl.last # <<>>
LastIdle == idl.last[1]
Elapsed(c) == c.at - c.before.time
Reading(c) == [set |-> TRUE, rx |-> c.bytes.rx, tx |-> c.bytes.tx, time |-> c.at]
Measured(c) == ~c.bytes.raised /\ c.before.set /\ Elapsed(c) >= IdleHz
BytesSince(c) == (c.bytes.rx - c.before.rx) + (c.bytes.tx - c.before.tx)

\* C21: the idle decision is true exactly when the CPU probe says idle (the
\* 1-minute load it read is below max_cpu_load) and the network probe says
\* idle (the rate it measured is below max_net_kbps KB/s); when either probe
\* says not idle the decision is false and the predownload run ends there.
C21_IdleIffBothProbesIdle ==
    IdleCalled =>
      LET c == LastIdle
          cpuSays == c.load.kind = "ok" => c.load.load < max_cpu_load
          netSays == Measured(c) =>
                       BytesSince(c) * IdleHz < max_net_kbps * 1024 * Elapsed(c)
      IN  /\ c.cpu_idle = cpuSays
          /\ c.net_idle = netSays
          /\ c.idle = (cpuSays /\ netSays)
          /\ (c.then = "done") = ~c.idle
          /\ (c.then = "packages") = c.idle

C21_Witness ==
    /\ IdleCalled
    /\ LastIdle.load.kind = "ok"
    /\ LastIdle.load.load < max_cpu_load
    /\ Measured(LastIdle)
    /\ ~LastIdle.net_idle
    /\ LastIdle.then = "done"

\* C22: the network probe answers idle on its first call, storing what it
\* read as the baseline, and answers idle on any later call made less than
\* one second after the stored baseline, whatever the byte counters show.
C22_FirstCallAndEarlyCallIdle ==
    IdleCalled =>
      LET c == LastIdle
      IN  /\ ~c.before.set =>
                /\ c.net_idle
                /\ ~c.bytes.raised => idl.sample = Reading(c)
          /\ (c.before.set /\ Elapsed(c) < IdleHz) => c.net_idle

C22_Witness ==
    /\ IdleCalled
    /\ LastIdle.before.set
    /\ ~LastIdle.bytes.raised
    /\ Elapsed(LastIdle) < IdleHz
    /\ Elapsed(LastIdle) > 0
    /\ BytesSince(LastIdle) >= max_net_kbps * 1024
    /\ LastIdle.net_idle

\* C23 as stated: every call of the network probe that reads the counters
\* replaces the stored baseline by the sample just read, also when it
\* returns early because less than one second has passed.
C23_BaselineReplacedOnEveryCall ==
    (IdleCalled /\ ~LastIdle.bytes.raised) => idl.sample = Reading(LastIdle)

\* C23 amended: a call of the network probe that reads the counters replaces
\* the stored baseline (bytes and timestamp) by the sample just read when it
\* is the first call or comes at least one second after the baseline; a call
\* that returns early because less than one second has passed leaves the
\* baseline as it was.
C23_BaselineReplacedUnlessEarly ==
    (IdleCalled /\ ~LastIdle.bytes.raised) =>
      LET c == LastIdle
      IN  IF c.before.set /\ Elapsed(c) < IdleHz
            THEN idl.sample = c.before
            ELSE idl.sample = Reading(c)

C23_Witness ==
    /\ IdleCalled
    /\ ~LastIdle.bytes.raised
    /\ LastIdle.before.set
    /\ Elapsed(LastIdle) >= IdleHz
    /\ idl.sample = Reading(LastIdle)
    /\ idl.sample # LastIdle.before

\* C24: a probe that cannot read or parse its kernel file answers idle and
\* raises nothing (the network probe leaving its baseline alone), so the
\* decision is then the other probe's answer: a failing probe alone never
\* ends the predownload run.
C24_ProbeFailureIsIdle ==
    IdleCalled =>
      LET c == LastIdle
      IN  /\ c.load.kind # "ok" => (c.cpu_idle /\ c.idle = c.net_idle)
          /\ c.bytes.raised =>
                /\ c.net_idle
                /\ c.idle = c.cpu_idle
                /\ idl.sample = c.before
          /\ (c.load.kind # "ok" /\ c.bytes.raised) => c.then = "packages"

C24_Witness ==
    /\ IdleCalled
    /\ LastIdle.load.kind = "bad"
    /\ LastIdle.bytes.raised
    /\ LastIdle.before.set
    /\ LastIdle.then = "packages"

HaveDone == hv.status = "done"
Names == hv.names
Available == hv.result.available
Missing == hv.result.missing
Occurs(seq, x) == Cardinality({i \in 1..Len(seq) : seq[i] = x})
Entries(fn) == {i \in 1..Len(Available) : Available[i].filename = fn}
\* the filenames that are empty or do not end in .rpm
NotAnRpmName(fn) == fn \in {EmptyName, Filename(FALSE, <<"weird_name">>)}
HeldBy(fn) ==
    {hm \in {"h1", "h2"} \X {"m1", "a.rpm"} :
        /\ hv.fs[HostDir(hm[1])].kind = "dir"
        /\ Node(hv.fs, MediaDir(hm[1], hm[2])).kind = "dir"
        /\ ~fn.abs
        /\ Len(fn.parts) = 1
        /\ Node(hv.fs, MediaDir(hm[1], hm[2]) \o fn.parts).kind = "file"}

\* C25: every path in the available list of a have() result has exactly
\* two directory components before the filename: host/media/file.
C25_PathIsHostMediaFile ==
    HaveDone => \A i \in 1..Len(Available) : Len(Available[i].path) = 3

\* C26 as stated: a filename that is empty or does not end in .rpm is
\* reported as missing and no filesystem access is made for it: no access of
\* the call is made on its behalf, and a call that has only such filenames
\* makes no access at all.
C26_InvalidNameNoFilesystemAccess ==
    HaveDone =>
      /\ \A k \in 1..Len(Names) :
            NotAnRpmName(Names[k]) =>
               /\ Entries(Names[k]) = {}
               /\ \E j \in 1..Len(Missing) : Missing[j] \in {Names[k], InvalidName}
               /\ \A a \in 1..Len(hv.result.log) : hv.result.log[a].name # k
      /\ (Names # <<>> /\ \A k \in 1..Len(Names) : NotAnRpmName(Names[k])) =>
            hv.result.log = <<>>

\* C26 amended: a filename that is empty or does not end in .rpm is reported
\* as missing and no filesystem access is made on its behalf; the one access
\* of a call that has only such filenames is the existence check of the
\* medias directory with which every call begins.
C26_InvalidNameOnlyEntryCheck ==
    HaveDone =>
      /\ \A k \in 1..Len(Names) :
            NotAnRpmName(Names[k]) =>
               /\ Entries(Names[k]) = {}
               /\ \E j \in 1..Len(Missing) : Missing[j] \in {Names[k], InvalidName}
               /\ \A a \in 1..Len(hv.result.log) : hv.result.log[a].name # k
      /\ (Names # <<>> /\ \A k \in 1..Len(Names) : NotAnRpmName(Names[k])) =>
            hv.result.log = <<Access("exists", MediasDir, 0)>>

C26_Witness ==
    /\ HaveDone
    /\ Len(Names) = 2
    /\ Names[1] = Filename(FALSE, <<"weird_name">>)
    /\ Names[2] = Filename(FALSE, <<"a.rpm">>)
    /\ Len(Available) = 1
    /\ Missing = <<Names[1]>>
    /\ Len(hv.result.log) > 4

\* C27: a valid filename is reported available iff a regular file of that
\* name lies in some <base>/medias/<host>/<media>/ directory; it then has
\* one entry per request, for the first such directory in iteration order,
\* with the size of the file there.
C27_AvailableIffFileInMediaDir ==
    HaveDone =>
      \A k \in 1..Len(Names) :
         LET fn == Names[k] IN
         ~NotAnRpmName(fn) =>
           /\ (Entries(fn) # {}) = (HeldBy(fn) # {})
           /\ Cardinality(Entries(fn)) \in {0, Occurs(Names, fn)}
           /\ \A i \in Entries(fn) :
                 \E hm \in HeldBy(fn) :
                    /\ Available[i].path = <<hm[1], hm[2]>> \o fn.parts
                    /\ Available[i].size = hv.fs[MediaDir(hm[1], hm[2]) \o fn.parts].size
                    /\ \A other \in HeldBy(fn) : other[1] # "h1" \/ hm[1] = "h1"

\* C28: have() puts every requested entry in exactly one of available and
\* missing: each filename is there as often as it was requested, the two
\* counts are the lengths of the two lists and add up to the length of the
\* input, and have([]) returns two empty lists and zero counts, also when
\* the medias directory does not exist.
C28_EveryEntryAvailableOrMissing ==
    HaveDone =>
      /\ ~hv.result.raised
      /\ hv.result.available_count = Len(Available)
      /\ hv.result.missing_count = Len(Missing)
      /\ hv.result.available_count + hv.result.missing_count = Len(Names)
      /\ \A fn \in Filenames \ {EmptyName} :
            Cardinality(Entries(fn)) + Occurs(Missing, fn) = Occurs(Names, fn)
      /\ Entries(EmptyName) = {}
      /\ Occurs(Missing, EmptyName) + Occurs(Missing, InvalidName) = Occurs(Names, EmptyName)
      /\ Names = <<>> => (Available = <<>> /\ Missing = <<>>)

C28_Witness ==
    /\ HaveDone
    /\ Names = <<Filename(FALSE, <<"a.rpm">>), Filename(FALSE, <<"b.rpm">>)>>
    /\ Len(Available) = 1
    /\ Available[1].path = <<"h2", "m1", "a.rpm">>
    /\ Missing = <<Filename(FALSE, <<"b.rpm">>)>>
    /\ hv.result.available_count = 1
    /\ hv.result.missing_count = 1

\* C29: when a writer deletes a cache file or directory while have() is
\* scanning, have() raises nothing and returns a normal result, in which the
\* filename is either available with the size of a file or missing.
C29_DeletionDuringScanTolerated ==
    HaveDone =>
      /\ ~hv.result.raised
      /\ \A k \in 1..Len(Names) :
            \/ /\ Occurs(Missing, Names[k]) = 1
               /\ Entries(Names[k]) = {}
            \/ /\ Occurs(Missing, Names[k]) = 0
               /\ Cardinality(Entries(Names[k])) = 1

\* C30: no package-store handle is ever used by two threads: the handle
\* self._db of the D-Bus service is used only by the thread that opened it.
C30_HandleUsedByOpenerOnly ==
    bus.status \in {"run", "stopped"} => bus.users \subseteq {bus.db.opener}

\* C38: in a cache cleanup, a file on which stat or unlink fails is skipped:
\* it stays and is not counted as removed, while every other .rpm file
\* older than the cutoff is deleted and counted.
C38_FailingFileSkippedOthersDeleted ==
    cc.status = "cleaned" =>
      /\ \A i \in 1..MaxFiles :
            LET f == cc.before[i] IN
            /\ (f.exists /\ f.oserror) => cc.files[i] = f
            /\ (f.exists /\ f.rpm /\ ~f.oserror /\ f.mtime < cc.now - cache_max_age) =>
                  ~cc.files[i].exists
      /\ cc.cleaned = Cardinality({i \in 1..MaxFiles :
                                     cc.before[i].exists /\ ~cc.files[i].exists})

C38_Witness ==
    /\ cc.status = "cleaned"
    /\ \E i, j \in 1..MaxFiles :
          /\ cc.before[i].exists /\ cc.before[i].rpm /\ cc.before[i].oserror
          /\ cc.before[i].mtime < cc.now - cache_max_age
          /\ cc.files[i].exists
          /\ cc.before[j].exists /\ ~cc.files[j].exists
    /\ cc.cleaned = 1

\* C39: have() reports as available only files that lie directly inside a
\* <base>/medias/<host>/<media>/ directory, whatever the filename asked for.
C39_OnlyFilesInsideMediaDirs ==
    HaveDone =>
      \A i \in 1..Len(Available) :
         \E h \in {"h1", "h2"}, m \in {"m1", "a.rpm"}, name \in {"a.rpm", "b.rpm"} :
            Available[i].at = MediaDir(h, m) \o <<name>>

\* C36: the two tasks are independent under failure: when metadata_check
\* raises at a tick where predownload is also due, predownload runs at that
\* tick or at the latest at the next one, and is rescheduled.
C36_PredownloadRunsDespiteMetadataFailure ==
    \A t \in Threads :
        (TickOver(t) /\ InLog(events[t], "owed_predownload")) =>
            /\ InLog(events[t], "start_predownload")
            /\ InLog(events[t], "sched_predownload")

\* C37: a task runs at a tick evaluation exactly when the time of the tick
\* is at or after the task's next-fire time: it never runs earlier, and it
\* runs at the first tick evaluation that finds it due.
C37_RunsExactlyWhenDue ==
    \A t \in Threads :
        TickOver(t) =>
            \A task \in Tasks :
               InLog(events[t], "start_" \o task) <=> task \in due[t]

\* C33: when the store cannot be opened at thread start the scheduler keeps
\* running: as long as _running is set, the scheduler thread has not ended.
C33_SchedulerSurvivesStoreFailure ==
    \A t \in Threads : (running /\ thread = t) => pc[t] # "done"

\* C31: no signal handler does blocking or store-mutating work itself: no
\* sync_media call triggered by a signal is made by the main thread, which
\* runs the request server, and the main thread is never held in a handler.
C31_HandlersDelegateToThread ==
    sg.status = "run" =>
        /\ sg.main # "reload"
        /\ \A k \in 1..Len(sg.log) : sg.log[k].by # "main"

\* C32: a SIGHUP that finds the store open and readable calls sync_media
\* with force=True exactly once for every enabled media and never for a
\* disabled one, whatever the sync of an earlier media did.
C32_ReloadSyncsEveryEnabledMedia ==
    sg.status = "run" =>
        \A n \in 1..Len(sg.done) :
           sg.done[n].listed =>
              \A i \in 1..Len(sg.media) :
                 LET calls == {k \in 1..Len(sg.log) :
                                 sg.log[k].n = n /\ sg.log[k].idx = i}
                 IN  /\ \A k \in calls : sg.log[k].force
                     /\ sg.media[i].enabled => Cardinality(calls) = 1
                     /\ ~sg.media[i].enabled => calls = {}

BusUp == bus.status \in {"run", "stopped"}
QueuedFor(w) == LET Mine(e) == e.id = w IN SelectSeq(bus.queue, Mine)
\* what has been handed to the main loop for operation w, delivered or not
Trace(w) == bus.op[w].seen \o [i \in 1..Len(QueuedFor(w)) |->
                                 [kind |-> QueuedFor(w)[i].kind,
                                  success |-> QueuedFor(w)[i].success]]
Kind(log, k) == {i \in 1..Len(log) : log[i].kind = k}
Delivered(w) ==
    /\ bus.op[w].pc = "done"
    /\ w \notin bus.active
    /\ Cardinality(Kind(bus.op[w].seen, "complete")) = 1
    /\ Cardinality(Kind(bus.op[w].seen, "return")) = 1
CompletionSafe ==
    BusUp =>
      \A w \in Workers :
         /\ bus.op[w].pc \in {"finishing", "done"} =>
               /\ Cardinality(Kind(Trace(w), "complete")) = 1
               /\ Cardinality(Kind(Trace(w), "return")) = 1
               /\ \A i \in Kind(Trace(w), "complete") :
                     \A j \in Kind(Trace(w), "progress") : j < i
         /\ bus.op[w].pc \in {"none", "started", "working"} =>
               /\ Kind(Trace(w), "complete") = {}
               /\ Kind(Trace(w), "return") = {}
         /\ bus.op[w].pc \in {"started", "working", "finishing"} => w \in bus.active
         /\ bus.op[w].pc \in {"none", "done"} => w \notin bus.active

\* C34: a write call whose authorization gave no context (credentials not
\* obtained, authorization denied, authorization raising) returns
\* (False, "Authorization denied"), registers no operation and starts no
\* thread; an operation is registered and a thread started only with a
\* context.
C34_NoOperationWithoutAuthorization ==
    BusUp =>
       /\ (bus.last.auth.creds # "ok" \/ bus.last.auth.polkit # "granted") =>
             /\ bus.last.ret = [success |-> FALSE, error |-> "Authorization denied"]
             /\ ~bus.last.registered
             /\ ~bus.last.spawned
       /\ (bus.last.registered \/ bus.last.spawned) =>
             (bus.last.auth.creds = "ok" /\ bus.last.auth.polkit = "granted")

C34_Witness ==
    /\ bus.status = "run"
    /\ bus.last.auth.polkit = "denied"
    /\ bus.last.ret.error = "Authorization denied"
    /\ bus.active # {}
    /\ bus.ops = Cardinality(bus.active)

\* C35 as stated: every authorized write operation eventually has exactly
\* one OperationComplete emitted and its invocation returned exactly once,
\* OperationComplete being the last signal of the operation, and its id is
\* out of the active operations when its thread has ended.
C35_EveryOperationCompletes ==
    /\ []CompletionSafe
    /\ \A w \in Workers : (bus.op[w].pc = "started") ~> Delivered(w)

\* C35 amended: on every path the thread of an authorized write operation
\* hands the main loop exactly one OperationComplete, after every progress
\* signal of the operation, and exactly one method return, and its id is
\* out of the active operations when the thread has ended; the main loop
\* emits and returns them, each once, unless it stops first.
C35_CompletesUnlessLoopStops ==
    /\ []CompletionSafe
    /\ \A w \in Workers :
          (bus.op[w].pc = "started") ~> (Delivered(w) \/ bus.status = "stopped")

C35_Witness ==
    /\ bus.status = "run"
    /\ Delivered(1)
    /\ bus.op[1].method = "install"
    /\ bus.op[1].seen = <<[kind |-> "progress", success |-> FALSE],
                          [kind |-> "progress", success |-> FALSE],
                          [kind |-> "complete", success |-> FALSE],
                          [kind |-> "return", success |-> FALSE]>>

\* C40: for every write operation and every outcome, the success flag of
\* the OperationComplete signal equals the success flag returned to the
\* caller of the method.
C40_SignalFlagEqualsReturnFlag ==
    BusUp =>
       \A w \in Workers :
          \A i \in Kind(bus.op[w].seen, "complete") :
             \A j \in Kind(bus.op[w].seen, "return") :
                bus.op[w].seen[i].success = bus.op[w].seen[j].success

=============================================================================
